---- MODULE Spec2Model ----
(***************************************************************************)
(* A model of the document parsing and structured-retrieval layer:        *)
(*   pdf_parsers.py  RulesManualParser, RatePagesParser                    *)
(*   agent_tools.py  PDFToolkit                                            *)
(* Python strings are sequences of one-character strings; Python None is   *)
(* the value None below.                                                   *)
(***************************************************************************)
EXTENDS Integers, Sequences, FiniteSets, TLC

VARIABLES
    pc,             \* position of the running operation
    \* ---- RatePagesParser.parse / _merge_multi_page_tables
    page_num,       \* page counter of the enumerate() over pdf.pages
    text_chunks,    \* the page TextChunks collected so far
    tables,         \* page-level TableData fragments collected so far
    sorted_tables,  \* the fragments sorted by page number
    idx,            \* loop index i of the merge walk (1-based position)
    current_group,  \* the open group of the merge walk
    merged,         \* the merged TableData emitted so far
    groups,         \* history: the group each element of merged was built from
    \* ---- RulesManualParser.parse
    rules_page_num, \* page counter of the enumerate() over pdf.pages
    doc,            \* history: the text of every page read so far
    current_rule,   \* <<the open rule record>>, or <<>> for None
    current_content,\* the content lines of the open rule
    current_part,   \* letter of the last PART header, or None
    current_part_name,
    chunks,         \* the rule chunks emitted so far
    \* ---- PDFToolkit
    folder,         \* the files of the PDF folder, in os.listdir order
    file_idx,       \* number of files _initialize_parsers has handled
    rules_chunks,   \* PDFToolkit._rules_chunks: <<the list>>, or <<>> for None
    rate_chunks,    \* PDFToolkit._rate_chunks: <<the list>>, or <<>> for None
    toolkit_tables, \* PDFToolkit._tables: <<the list>>, or <<>> for None
    call,           \* the arguments of the last query
    result,         \* what the last query returned
    \* ---- the build of the corpus and CacheManager
    env,            \* whether pdfs_folder exists, use_cache, the PDFs that cannot be opened
    cache,          \* the cache file of the folder: <<the pickled tuple>>, or <<>>
    toolkit1,       \* <<the lists of the first toolkit>> once a second one is made
    \* ---- CacheManager and the folder it fingerprints
    pdf_stats,      \* the PDFs of the folder as stat() shows them: name, mtime, size
    cache_files,    \* the .pkl files of the cache directory: path and pickled data
    cache_log,      \* history: the saves, clears and file changes so far
    \* ---- the agent loop of answer_pdf_question and run_agent_with_config
    messages,       \* the conversation sent with every model call
    iteration,      \* the loop variable of range(max_iterations)
    max_iterations, \* 12, or config.max_iterations
    response,       \* the last response of client.messages.create
    block_idx,      \* number of blocks of response.content handled so far
    tool_results,   \* the tool_result blocks collected for the response
    trace,          \* <<the trace dict>> of run_agent_with_config, or <<>>
    final_answer    \* <<what the function returned>>, or <<>>

rateVars == <<page_num, text_chunks, tables, sorted_tables, idx, current_group, merged, groups>>
rulesVars == <<rules_page_num, doc, current_rule, current_content, current_part,
               current_part_name, chunks>>
buildVars == <<env, cache, toolkit1>>
cacheVars == <<pdf_stats, cache_files, cache_log>>
agentVars == <<messages, iteration, max_iterations, response, block_idx, tool_results,
               trace, final_answer>>
toolVars == <<folder, file_idx, rules_chunks, rate_chunks, toolkit_tables,
             call, result, buildVars, cacheVars, agentVars>>
vars == <<pc, rateVars, rulesVars, toolVars>>

(***************************************************************************)
(* Python values                                                           *)
(***************************************************************************)
None == <<"<None>">>

Digits == <<"0", "1", "2", "3", "4", "5", "6", "7", "8", "9">>
UpperChars == <<"A", "B", "C", "D", "E", "F", "G", "H", "I", "J", "K", "L", "M",
                "N", "O", "P", "Q", "R", "S", "T", "U", "V", "W", "X", "Y", "Z">>
LowerChars == <<"a", "b", "c", "d", "e", "f", "g", "h", "i", "j", "k", "l", "m",
                "n", "o", "p", "q", "r", "s", "t", "u", "v", "w", "x", "y", "z">>
Whitespace == {" ", "\n", "\t", "\r"}

Range(s) == {s[i] : i \in DOMAIN s}
DigitSet == Range(Digits)
UpperSet == Range(UpperChars)
LowerSet == Range(LowerChars)
IsDigit(c) == c \in DigitSet
IsUpper(c) == c \in UpperSet
IsLower(c) == c \in LowerSet
IsAlpha(c) == IsUpper(c) \/ IsLower(c)

Abs(n) == IF n < 0 THEN -n ELSE n

\* str.lower()
LowerChar(c) ==
    IF IsUpper(c)
    THEN LowerChars[CHOOSE i \in DOMAIN UpperChars : UpperChars[i] = c]
    ELSE c
Lower(s) == [i \in DOMAIN s |-> LowerChar(s[i])]

\* a in b, for two strings
IsSubstring(a, b) ==
    \E i \in 0..(Len(b) - Len(a)) : SubSeq(b, i + 1, i + Len(a)) = a

\* str(n) for a small natural number
RECURSIVE IntToStr(_)
IntToStr(n) ==
    IF n < 10 THEN <<Digits[n + 1]>>
    ELSE IntToStr(n \div 10) \o <<Digits[(n % 10) + 1]>>

\* str(x) for a cell: a string is itself, None is "None"
Str(x) == IF x = None THEN <<"N", "o", "n", "e">> ELSE x

\* s.replace(old, new): leftmost non-overlapping occurrences, one pass
RECURSIVE Replace(_, _, _)
Replace(s, old, new) ==
    IF Len(s) < Len(old) THEN s
    ELSE IF SubSeq(s, 1, Len(old)) = old
         THEN new \o Replace(SubSeq(s, Len(old) + 1, Len(s)), old, new)
         ELSE <<s[1]>> \o Replace(Tail(s), old, new)

\* s.strip()
RECURSIVE LStrip(_)
LStrip(s) ==
    IF s # <<>> /\ s[1] \in Whitespace THEN LStrip(Tail(s)) ELSE s
RECURSIVE RStrip(_)
RStrip(s) ==
    IF s # <<>> /\ s[Len(s)] \in Whitespace
    THEN RStrip(SubSeq(s, 1, Len(s) - 1)) ELSE s
Strip(s) == RStrip(LStrip(s))

\* sep.join(parts)
RECURSIVE Join(_, _)
Join(sep, parts) ==
    IF parts = <<>> THEN <<>>
    ELSE IF Len(parts) = 1 THEN parts[1]
    ELSE parts[1] \o sep \o Join(sep, Tail(parts))

\* the lists of ss joined into one, as repeated list.extend does
RECURSIVE Concat(_)
Concat(ss) == IF ss = <<>> THEN <<>> ELSE ss[1] \o Concat(Tail(ss))

(***************************************************************************)
(* Bounds of the model                                                     *)
(***************************************************************************)
MaxPage == 5            \* pages of a rate PDF
MaxFrags == 3           \* page-level tables of a rate PDF
MaxRulePages == 2       \* pages of a rules PDF
MaxLines == 4           \* lines of a rules PDF
MaxEmptyPages == 1      \* pages without text of a rules PDF

(***************************************************************************)
(* RatePagesParser                                                         *)
(***************************************************************************)
MergePageGap == 2
PageBreak == <<"\n", "-", "-", "-", "P", "A", "G", "E", " ", "B", "R", "E", "A",
               "K", "-", "-", "-", "\n">>

\* the first position >= from at which pattern  word \s+ ident  matches, where
\* ident is  \d+[A-Za-z]?  (roman = FALSE) or  [IVX]+  (roman = TRUE); the
\* captured ident, or None when there is no match
RomanChars == {"I", "V", "X"}
RECURSIVE TakeWhile(_, _, _)
TakeWhile(s, i, kind) ==
    IF i <= Len(s) /\ (CASE kind = "space" -> s[i] \in Whitespace
                         [] kind = "digit" -> IsDigit(s[i])
                         [] kind = "roman" -> s[i] \in RomanChars)
    THEN TakeWhile(s, i + 1, kind) ELSE i

MatchAt(s, i, word, roman) ==
    \* the capture of a match that starts at position i, or None
    IF i + Len(word) - 1 > Len(s) THEN None
    ELSE IF SubSeq(s, i, i + Len(word) - 1) # word THEN None
    ELSE LET a == i + Len(word)
             b == TakeWhile(s, a, "space")
             c == TakeWhile(s, b, IF roman THEN "roman" ELSE "digit")
             d == IF ~roman /\ c <= Len(s) /\ IsAlpha(s[c]) THEN c + 1 ELSE c
         IN  IF b = a \/ c = b THEN None ELSE SubSeq(s, b, d - 1)

RECURSIVE SearchFrom(_, _, _, _)
SearchFrom(s, i, word, roman) ==
    IF i > Len(s) THEN None
    ELSE IF MatchAt(s, i, word, roman) # None THEN MatchAt(s, i, word, roman)
    ELSE SearchFrom(s, i + 1, word, roman)

ExhibitWord == <<"E", "x", "h", "i", "b", "i", "t">>
ExhibitUpper == <<"E", "X", "H", "I", "B", "I", "T">>
UnknownName == <<"U", "n", "k", "n", "o", "w", "n">>

\* mutant: the roman pattern is tried before the number pattern
extract_exhibit_name_RomanFirst(text) ==
    LET m1 == SearchFrom(text, 1, ExhibitWord, FALSE)
        m2 == SearchFrom(text, 1, ExhibitWord, TRUE)
        m3 == SearchFrom(text, 1, ExhibitUpper, FALSE)
        pre == ExhibitWord \o <<" ">>
    IN  IF m2 # None THEN pre \o m2
        ELSE IF m1 # None THEN pre \o m1
        ELSE IF m3 # None THEN pre \o m3
        ELSE UnknownName

extract_exhibit_name(text) ==
    LET m1 == SearchFrom(text, 1, ExhibitWord, FALSE)
        m2 == SearchFrom(text, 1, ExhibitWord, TRUE)
        m3 == SearchFrom(text, 1, ExhibitUpper, FALSE)
        pre == ExhibitWord \o <<" ">>
    IN  IF m1 # None THEN pre \o m1
        ELSE IF m2 # None THEN pre \o m2
        ELSE IF m3 # None THEN pre \o m3
        ELSE UnknownName

\* f"Table_{page_num}_{table_idx}"
SyntheticName(p, table_idx) ==
    <<"T", "a", "b", "l", "e", "_">> \o IntToStr(p) \o <<"_">> \o IntToStr(table_idx)

\* f"{source_doc}:{exhibit_name}"
TableId(source_doc, exhibit_name) == source_doc \o <<":">> \o exhibit_name

\* the TextChunk of page p:  if text: ... text_chunks.append(chunk)
PageChunk(source_doc, p, text) ==
    IF text = <<>> THEN <<>>
    ELSE <<[content |-> text,
            page_number |-> p,
            chunk_id |-> <<"p", "a", "g", "e", "_">> \o IntToStr(p),
            source_document |-> source_doc,
            metadata |-> [exhibit_name |-> extract_exhibit_name(text)]]>>

\* the TableData of raw table number table_idx (0-based) of page p
MakeTableData(source_doc, p, text, table_idx, table) ==
    LET exhibit_name == IF text # <<>> THEN extract_exhibit_name(text)
                        ELSE SyntheticName(p, table_idx)
    IN  [data |-> IF Len(table) > 1 THEN Tail(table) ELSE <<>>,
         headers |-> table[1],
         exhibit_name |-> exhibit_name,
         page_number |-> p,
         page_text |-> text,
         source_document |-> source_doc,
         table_id |-> TableId(source_doc, exhibit_name),
         metadata |-> [table_index |-> table_idx]]

\* the fragments of one page, raw tables that are empty lists skipped
RECURSIVE PageFragments(_, _, _, _, _)
PageFragments(source_doc, p, text, page_tables, k) ==
    IF k > Len(page_tables) THEN <<>>
    ELSE (IF Len(page_tables[k]) > 0
          THEN <<MakeTableData(source_doc, p, text, k - 1, page_tables[k])>>
          ELSE <<>>)
         \o PageFragments(source_doc, p, text, page_tables, k + 1)

\* sorted(tables, key=lambda t: t.page_number): a stable sort
RECURSIVE InsertByPage(_, _)
InsertByPage(s, t) ==
    IF s = <<>> THEN <<t>>
    ELSE IF s[Len(s)].page_number <= t.page_number THEN Append(s, t)
    ELSE Append(InsertByPage(SubSeq(s, 1, Len(s) - 1), t), s[Len(s)])
RECURSIVE SortByPage(_)
SortByPage(s) ==
    IF s = <<>> THEN <<>>
    ELSE InsertByPage(SortByPage(SubSeq(s, 1, Len(s) - 1)), s[Len(s)])

normalize(h) ==
    IF h = None THEN <<>>
    ELSE Lower(Strip(Replace(Replace(Str(h), <<"\n">>, <<" ">>),
                             <<" ", " ">>, <<" ">>)))

headers_match(headers1, headers2) ==
    IF Len(headers1) # Len(headers2) THEN FALSE
    ELSE [i \in DOMAIN headers1 |-> normalize(headers1[i])]
         = [i \in DOMAIN headers2 |-> normalize(headers2[i])]

\* mutant: only directly consecutive pages continue a table
PagesWithin_Consecutive(curr_page, prev_page) ==
    Abs(curr_page - prev_page) <= 1

PagesWithin(curr_page, prev_page) ==
    Abs(curr_page - prev_page) <= MergePageGap

\* mutant: the header comparison is left out
should_merge_NoHeaders(curr_table, prev_table) ==
    /\ curr_table.exhibit_name = prev_table.exhibit_name
    /\ PagesWithin(curr_table.page_number, prev_table.page_number)

should_merge(curr_table, prev_table) ==
    /\ curr_table.exhibit_name = prev_table.exhibit_name
    /\ PagesWithin(curr_table.page_number, prev_table.page_number)
    /\ headers_match(curr_table.headers, prev_table.headers)

RECURSIVE NonEmptyTexts(_)
NonEmptyTexts(group) ==
    IF group = <<>> THEN <<>>
    ELSE (IF group[1].page_text # <<>> THEN <<group[1].page_text>> ELSE <<>>)
         \o NonEmptyTexts(Tail(group))

\* mutant: the rows of the later fragments are not added
merge_table_group_BaseRows(group) ==
    IF Len(group) = 1 THEN group[1]
    ELSE LET base == group[1]
         IN  [data |-> base.data,
              headers |-> base.headers,
              exhibit_name |-> base.exhibit_name,
              page_number |-> base.page_number,
              page_text |-> Join(PageBreak, NonEmptyTexts(group)),
              source_document |-> base.source_document,
              table_id |-> base.table_id,
              metadata |-> [table_index |-> base.metadata.table_index,
                            merged_from_pages |->
                                [i \in DOMAIN group |-> group[i].page_number],
                            total_pages |-> Len(group)]]

merge_table_group(group) ==
    IF Len(group) = 1 THEN group[1]
    ELSE LET base == group[1]
         IN  [data |-> Concat([i \in DOMAIN group |-> group[i].data]),
              headers |-> base.headers,
              exhibit_name |-> base.exhibit_name,
              page_number |-> base.page_number,
              page_text |-> Join(PageBreak, NonEmptyTexts(group)),
              source_document |-> base.source_document,
              table_id |-> base.table_id,
              metadata |-> [table_index |-> base.metadata.table_index,
                            merged_from_pages |->
                                [i \in DOMAIN group |-> group[i].page_number],
                            total_pages |-> Len(group)]]

(***************************************************************************)
(* Inputs of RatePagesParser.parse: what pdfplumber yields for a page      *)
(***************************************************************************)
Text1 == ExhibitWord \o <<" ", "1">>
Text6 == ExhibitWord \o <<" ", "6">>
NoText == <<>>

HdrA == << <<"A", " ", "b">>, <<"c">> >>
HdrA2 == << <<"a", "\n", "b">>, <<" ", "C">> >>
HdrB == << <<"x">>, None >>

\* a data row that names its page, its table and its position
DataRow(p, k, r) == << <<"r">> \o IntToStr(p) \o IntToStr(k) \o IntToStr(r), <<"v">> >>

\* the raw tables pdfplumber may yield as table number k of page p:
\* a header row followed by data rows
RawTable(p, k, kind) ==
    CASE kind = "A" -> <<HdrA, DataRow(p, k, 1)>>
      [] kind = "A2" -> <<HdrA2, DataRow(p, k, 1), DataRow(p, k, 2)>>
      [] kind = "B" -> <<HdrB>>

\* the pages a rate PDF is made of: the page text and the kinds of its tables
PageChoices ==
    {<<Text1, <<>>>>,
     <<Text1, <<"A">>>>, <<Text1, <<"A2">>>>, <<Text1, <<"B">>>>,
     <<Text6, <<"A">>>>, <<Text6, <<"B">>>>, <<NoText, <<"A">>>>,
     <<Text1, <<"A", "A">>>>, <<Text1, <<"A", "B">>>>,
     <<Text6, <<"A", "A2">>>>, <<NoText, <<"A", "A">>>>}

RateFileName == <<"R", "a", "t", "e", ".", "p", "d", "f">>

(***************************************************************************)
(* RatePagesParser.parse, page by page, then the merge walk                *)
(***************************************************************************)
\* the values of call and result before the first query
NoCall == [op |-> "none"]
NoResult == [kind |-> "none"]

RateIdle ==
    /\ page_num = 0 /\ text_chunks = <<>> /\ tables = <<>> /\ sorted_tables = <<>> /\ idx = 0
    /\ current_group = <<>> /\ merged = <<>> /\ groups = <<>>
RulesIdle ==
    /\ rules_page_num = 0
    /\ doc = <<>> /\ current_rule = <<>> /\ current_content = <<>>
    /\ current_part = None /\ current_part_name = None /\ chunks = <<>>
\* an existing folder of readable PDFs and a toolkit made with use_cache=False
PlainEnv == [exists |-> TRUE, use_cache |-> FALSE, unreadable |-> {}]
BuildIdle == env = PlainEnv /\ cache = <<>> /\ toolkit1 = <<>>
CacheIdle == pdf_stats = {} /\ cache_files = {} /\ cache_log = <<>>
NoResponse == [stop_reason |-> "none", content |-> <<>>]
AgentIdle ==
    /\ messages = <<>> /\ iteration = 0 /\ max_iterations = 0
    /\ response = NoResponse /\ block_idx = 0 /\ tool_results = <<>>
    /\ trace = <<>> /\ final_answer = <<>>
ToolIdle ==
    /\ folder = <<>> /\ file_idx = 0
    /\ rules_chunks = <<>> /\ rate_chunks = <<>> /\ toolkit_tables = <<>>
    /\ call = NoCall /\ result = NoResult
    /\ BuildIdle /\ CacheIdle /\ AgentIdle

\* one iteration of  for page_num, page in enumerate(pdf.pages, start=1)
ParsePage ==
    /\ pc = "parse"
    /\ page_num < MaxPage
    /\ Len(tables) < MaxFrags
    /\ \E page \in PageChoices :
          LET text == page[1]
              page_tables == [k \in DOMAIN page[2] |->
                                 RawTable(page_num + 1, k, page[2][k])]
              frags == PageFragments(RateFileName, page_num + 1, text,
                                     page_tables, 1)
          IN  /\ Len(tables) + Len(frags) <= MaxFrags
              /\ text_chunks' = text_chunks
                                   \o PageChunk(RateFileName, page_num + 1, text)
              /\ tables' = tables \o frags
    /\ page_num' = page_num + 1
    /\ UNCHANGED <<pc, sorted_tables, idx, current_group, merged, groups>>
    /\ UNCHANGED <<rulesVars, toolVars>>

\* the page loop ends; _merge_multi_page_tables up to its loop
MergeBegin ==
    /\ pc = "parse"
    /\ IF tables = <<>>
       THEN /\ pc' = "parsed"
            /\ UNCHANGED <<sorted_tables, idx, current_group>>
       ELSE /\ pc' = "merge"
            /\ sorted_tables' = SortByPage(tables)
            /\ current_group' = <<SortByPage(tables)[1]>>
            /\ idx' = 2
    /\ UNCHANGED <<page_num, text_chunks, tables, merged, groups>>
    /\ UNCHANGED <<rulesVars, toolVars>>

\* one iteration of  for i in range(1, len(sorted_tables))
MergeStep ==
    /\ pc = "merge"
    /\ idx <= Len(sorted_tables)
    /\ LET prev_table == current_group[Len(current_group)]
           curr_table == sorted_tables[idx]
       IN  IF should_merge(curr_table, prev_table)
           THEN /\ current_group' = Append(current_group, curr_table)
                /\ UNCHANGED <<merged, groups>>
           ELSE /\ merged' = Append(merged, merge_table_group(current_group))
                /\ groups' = Append(groups, current_group)
                /\ current_group' = <<curr_table>>
    /\ idx' = idx + 1
    /\ UNCHANGED <<pc, page_num, text_chunks, tables, sorted_tables>>
    /\ UNCHANGED <<rulesVars, toolVars>>

\* after the loop: the last group
MergeEnd ==
    /\ pc = "merge"
    /\ idx > Len(sorted_tables)
    /\ merged' = Append(merged, merge_table_group(current_group))
    /\ groups' = Append(groups, current_group)
    /\ pc' = "parsed"
    /\ UNCHANGED <<page_num, text_chunks, tables, sorted_tables, idx,
                   current_group>>
    /\ UNCHANGED <<rulesVars, toolVars>>

InitRate == pc = "parse" /\ RateIdle /\ RulesIdle /\ ToolIdle
NextRate == ParsePage \/ MergeBegin \/ MergeStep \/ MergeEnd
SpecRate == InitRate /\ [][NextRate]_vars

(***************************************************************************)
(* Claims about the merge of page-level tables                             *)
(***************************************************************************)
NormHeaders(h) == [i \in DOMAIN h |-> normalize(h[i])]
PagesOf(g) == [i \in DOMAIN g |-> g[i].page_number]
Ascending(ps) == \A i, j \in DOMAIN ps : i < j => ps[i] <= ps[j]

\* total number of fragments (or rows) in the first k elements of a sequence
RECURSIVE SumLen(_, _)
SumLen(ss, k) == IF k = 0 THEN 0 ELSE SumLen(ss, k - 1) + Len(ss[k])

\* the conditions of the claim, measured against the open group grp
JoinsGroup(f, grp) ==
    /\ f.exhibit_name = grp[1].exhibit_name
    /\ f.page_number - grp[Len(grp)].page_number \in 0..2
    /\ NormHeaders(f.headers) = NormHeaders(grp[1].headers)

WalkStepOK ==
    (pc = "merge" /\ idx <= Len(sorted_tables)) =>
        LET f == sorted_tables[idx]
        IN  IF JoinsGroup(f, current_group)
            THEN /\ current_group' = Append(current_group, f)
                 /\ merged' = merged
                 /\ groups' = groups
            ELSE /\ Len(merged') = Len(merged) + 1
                 /\ SubSeq(merged', 1, Len(merged)) = merged
                 /\ groups' = Append(groups, current_group)
                 /\ current_group' = <<f>>

WalkEndOK ==
    (pc = "merge" /\ idx > Len(sorted_tables)) =>
        /\ Len(merged') = Len(merged) + 1
        /\ SubSeq(merged', 1, Len(merged)) = merged
        /\ groups' = Append(groups, current_group)
        /\ pc' = "parsed"

WalkOrderOK ==
    pc = "merge" =>
        /\ Ascending(PagesOf(sorted_tables))
        /\ Len(sorted_tables) = Len(tables)
        /\ current_group # <<>>

Pages135 ==
    /\ Len(tables) = 3
    /\ PagesOf(tables) = <<1, 3, 5>>
    /\ \A i \in 2..3 : /\ tables[i].exhibit_name = tables[1].exhibit_name
                       /\ NormHeaders(tables[i].headers) = NormHeaders(tables[1].headers)

\* C1: walking the fragments in ascending page order, a fragment joins the open
\* group iff its name equals the group's name, its page is within 2 of the
\* fragment added last and its normalised headers equal the group's; otherwise
\* the group is emitted as one Exhibit and a new group starts with the fragment;
\* the last group is emitted after the walk; fragments on pages 1, 3 and 5 with
\* equal name and headers end in one Exhibit.
C1_MergeWalk ==
    /\ [][WalkStepOK /\ WalkEndOK]_vars
    /\ [](WalkOrderOK)
    /\ []((pc = "parsed" /\ Pages135) => (Len(merged) = 1 /\ groups = <<tables>>))

C1_Witness ==
    /\ pc = "parsed" /\ Pages135
    /\ Len(merged) = 1
    /\ merged[1].metadata.merged_from_pages = <<1, 3, 5>>

\* C2: after parsing and merging one file, no two Exhibits carry the same
\* table_id.
C2_UniqueTableIds ==
    pc = "parsed" =>
        \A i, j \in DOMAIN merged : i # j => merged[i].table_id # merged[j].table_id

\* the rows of the fragments of g, one fragment after the other
RowsInPageOrder(m, g) ==
    /\ Len(m.data) = SumLen([i \in DOMAIN g |-> g[i].data], Len(g))
    /\ \A i \in DOMAIN g : \A r \in DOMAIN g[i].data :
          m.data[SumLen([n \in DOMAIN g |-> g[n].data], i - 1) + r] = g[i].data[r]

MergedExhibitOK(m, g) ==
    IF Len(g) = 1 THEN m = g[1]
    ELSE /\ RowsInPageOrder(m, g)
         /\ m.headers = g[1].headers
         /\ m.page_number = g[1].page_number
         /\ m.metadata.merged_from_pages = PagesOf(g)
         /\ Ascending(m.metadata.merged_from_pages)

TwoConsecutive ==
    /\ Len(tables) = 2
    /\ tables[2].page_number = tables[1].page_number + 1
    /\ tables[2].exhibit_name = tables[1].exhibit_name
    /\ NormHeaders(tables[2].headers) = NormHeaders(tables[1].headers)

\* C3: the Exhibit of a group of two or more fragments has the fragments' rows
\* concatenated in page order, the first fragment's headers unchanged, the first
\* fragment's page and the ascending list of the fragments' pages; fragments on
\* pages N and N+1 with equal name and normalised headers yield one Exhibit with
\* page list [N, N+1]; a group of one fragment is returned unchanged.
C3_MergedGroup ==
    /\ Len(groups) = Len(merged)
    /\ \A k \in DOMAIN merged : MergedExhibitOK(merged[k], groups[k])
    /\ (pc = "parsed" /\ TwoConsecutive) =>
          /\ Len(merged) = 1
          /\ Len(merged[1].data) = Len(tables[1].data) + Len(tables[2].data)
          /\ merged[1].metadata.merged_from_pages =
                <<tables[1].page_number, tables[1].page_number + 1>>

C3_Witness ==
    /\ pc = "parsed"
    /\ \E k \in DOMAIN merged :
          /\ Len(groups[k]) >= 2
          /\ groups[k][1].headers # groups[k][2].headers
          /\ Len(merged[k].data) >= 3
    /\ \E k \in DOMAIN merged : Len(groups[k]) = 1

\* the group that holds position i of sorted_tables
GroupOf(i) ==
    CHOOSE k \in DOMAIN groups : SumLen(groups, k - 1) < i /\ i <= SumLen(groups, k)

GroupUniform(g) ==
    \A i \in DOMAIN g :
        /\ g[i].exhibit_name = g[1].exhibit_name
        /\ NormHeaders(g[i].headers) = NormHeaders(g[1].headers)
        /\ i > 1 => g[i].page_number - g[i - 1].page_number \in 0..2

Separated(f1, f2) ==
    \/ f2.page_number - f1.page_number > 2
    \/ NormHeaders(f1.headers) # NormHeaders(f2.headers)
    \/ f1.exhibit_name # f2.exhibit_name

\* C4: in every Exhibit produced by the merge all contributing fragments have
\* the same exhibit name and list-equal normalised headers, and each one's page
\* is at most 2 after the previous one's; successive fragments separated by a
\* page gap greater than 2, by differing headers or by differing names are in
\* separate Exhibits.
C4_NoMergeAcross ==
    /\ \A k \in DOMAIN groups : GroupUniform(groups[k])
    /\ pc = "merge" => GroupUniform(current_group)
    /\ pc = "parsed" =>
          /\ Concat(groups) = sorted_tables
          /\ \A i \in 1..(Len(sorted_tables) - 1) :
                Separated(sorted_tables[i], sorted_tables[i + 1])
                    => GroupOf(i) # GroupOf(i + 1)

C4_Witness ==
    /\ pc = "parsed"
    /\ Len(merged) = 3
    /\ \E i \in 1..2 :
          /\ sorted_tables[i + 1].page_number - sorted_tables[i].page_number > 2
          /\ sorted_tables[i + 1].exhibit_name = sorted_tables[i].exhibit_name
          /\ sorted_tables[i + 1].headers = sorted_tables[i].headers
    /\ \E i \in 1..2 :
          /\ sorted_tables[i + 1].page_number = sorted_tables[i].page_number
          /\ NormHeaders(sorted_tables[i + 1].headers)
                # NormHeaders(sorted_tables[i].headers)

(***************************************************************************)
(* RulesManualParser                                                       *)
(***************************************************************************)
\* the characters U+2013 and U+2014
EnDash == "endash"
EmDash == "emdash"
DashChars == {"-", EnDash, EmDash}
IsWordChar(c) == IsAlpha(c) \/ IsDigit(c) \/ c = "_"

\* text.split('\n')
RECURSIVE SplitLines(_)
SplitLines(text) ==
    IF \A i \in DOMAIN text : text[i] # "\n" THEN <<text>>
    ELSE LET n == CHOOSE i \in DOMAIN text :
                     text[i] = "\n" /\ \A j \in 1..(i - 1) : text[j] # "\n"
         IN  <<SubSeq(text, 1, n - 1)>> \o SplitLines(SubSeq(text, n + 1, Len(text)))

\* the group a trailing  \s*(.+?)$  captures from position i on: the rest of the
\* line after its leading whitespace, or the last character when the rest is
\* whitespace only; None when nothing is left
LazyRest(s, i) ==
    IF i > Len(s) THEN None
    ELSE LET j == TakeWhile(s, i, "space")
         IN  IF j > Len(s) THEN <<s[Len(s)]>> ELSE SubSeq(s, j, Len(s))

PartWord == <<"P", "A", "R", "T">>
\* a match of  PART\s+([A-Z])\s*[–—-]\s*(.+?)$  that starts at position i
PartMatchAt(s, i) ==
    IF i + Len(PartWord) - 1 > Len(s) THEN None
    ELSE IF SubSeq(s, i, i + Len(PartWord) - 1) # PartWord THEN None
    ELSE LET a == i + Len(PartWord)
             b == TakeWhile(s, a, "space")
             c == TakeWhile(s, b + 1, "space")
         IN  IF b = a \/ b > Len(s) THEN None
             ELSE IF ~IsUpper(s[b]) THEN None
             ELSE IF c > Len(s) THEN None
             ELSE IF s[c] \notin DashChars THEN None
             ELSE IF LazyRest(s, c + 1) = None THEN None
             ELSE <<s[b]>> \o LazyRest(s, c + 1)

\* re.search(part_pattern, line): <<letter>> \o name of the leftmost match
RECURSIVE PartSearch(_, _)
PartSearch(s, i) ==
    IF i > Len(s) THEN None
    ELSE IF PartMatchAt(s, i) # None THEN PartMatchAt(s, i)
    ELSE PartSearch(s, i + 1)
part_match(line) == PartSearch(line, 1)

RuleWord == <<"R", "u", "l", "e", " ">>
\* a match of  Rule ([A-Z]-\d+):\s*(.+?)$  that starts at position i, as
\* <<number, title>>
RuleMatchAt(s, i) ==
    IF i + Len(RuleWord) + 1 > Len(s) THEN <<>>
    ELSE IF SubSeq(s, i, i + Len(RuleWord) - 1) # RuleWord THEN <<>>
    ELSE LET a == i + Len(RuleWord)
             d == TakeWhile(s, a + 2, "digit")
         IN  IF ~IsUpper(s[a]) \/ s[a + 1] # "-" THEN <<>>
             ELSE IF d = a + 2 \/ d > Len(s) THEN <<>>
             ELSE IF s[d] # ":" THEN <<>>
             ELSE IF LazyRest(s, d + 1) = None THEN <<>>
             ELSE <<SubSeq(s, a, d - 1), LazyRest(s, d + 1)>>

RECURSIVE RuleSearch(_, _)
RuleSearch(s, i) ==
    IF i > Len(s) THEN <<>>
    ELSE IF RuleMatchAt(s, i) # <<>> THEN RuleMatchAt(s, i)
    ELSE RuleSearch(s, i + 1)
\* re.search(rule_pattern, line): <<number, title>>, or <<>> for no match
rule_match(line) == RuleSearch(line, 1)

\* re.sub(r'\[.*?\]', '', text): '.' does not match a line break
RECURSIVE RemoveBracketed(_)
RemoveBracketed(s) ==
    IF s = <<>> THEN <<>>
    ELSE IF s[1] = "[" /\ \E j \in 2..Len(s) :
                             s[j] = "]" /\ \A k \in 2..(j - 1) : s[k] # "\n"
    THEN LET j == CHOOSE j \in 2..Len(s) :
                     /\ s[j] = "]"
                     /\ \A k \in 2..(j - 1) : s[k] # "\n" /\ s[k] # "]"
         IN  RemoveBracketed(SubSeq(s, j + 1, Len(s)))
    ELSE <<s[1]>> \o RemoveBracketed(Tail(s))

\* re.sub(r'\s+', ' ', text)
RECURSIVE CollapseWhitespace(_)
CollapseWhitespace(s) ==
    IF s = <<>> THEN <<>>
    ELSE IF s[1] \in Whitespace
    THEN <<" ">> \o CollapseWhitespace(SubSeq(s, TakeWhile(s, 1, "space"), Len(s)))
    ELSE <<s[1]>> \o CollapseWhitespace(Tail(s))

clean_text(text) == Strip(CollapseWhitespace(RemoveBracketed(text)))

\* the replacements table of _clean_rule_title, in dict order: the texts a
\* pattern matches (the longer alternative of an optional 's' first) and the
\* replacement
TitleReplacements ==
  << << <<<<"B", "A", "S", "E", " ", "R", "A", "T", "E", "S">>>>,
        <<"B", "a", "s", "e", " ", "R", "a", "t", "e", "s">> >>,
     << <<<<"A", "G", "E", " ", "O", "F", " ", "H", "O", "M", "E">>>>,
        <<"A", "g", "e", " ", "o", "f", " ", "H", "o", "m", "e", " ", "F", "a", "c", "t", "o", "r">> >>,
     << <<<<"P", "u", "b", "l", "i", "c", " ", "P", "R", "O", "T", "E", "C", "T", "I", "O", "N", " ", "C", "L", "A", "S", "S">>>>,
        <<"P", "u", "b", "l", "i", "c", " ", "P", "r", "o", "t", "e", "c", "t", "i", "o", "n", " ", "C", "l", "a", "s", "s", " ", "F", "a", "c", "t", "o", "r", "s">> >>,
     << <<<<"P", "o", "l", "i", "c", "y", " ", "T", "E", "R", "R", "I", "T", "O", "R", "Y", " ", "D", "E", "T", "E", "R", "M", "I", "N", "A", "T", "I", "O", "N">>>>,
        <<"P", "o", "l", "i", "c", "y", " ", "T", "e", "r", "r", "i", "t", "o", "r", "y", " ", "D", "e", "t", "e", "r", "m", "i", "n", "a", "t", "i", "o", "n">> >>,
     << <<<<"U", "N", "D", "E", "R", "W", "R", "I", "T", "I", "N", "G", " ", "E", "X", "P", "E", "R", "I", "E", "N", "C", "E", " ", "F", "a", "c", "t", "o", "r">>>>,
        <<"U", "n", "d", "e", "r", "w", "r", "i", "t", "i", "n", "g", " ", "E", "x", "p", "e", "r", "i", "e", "n", "c", "e">> >>,
     << <<<<"M", "I", "N", "I", "M", "U", "M", " ", "P", "R", "E", "M", "I", "U", "M">>>>,
        <<"M", "i", "n", "i", "m", "u", "m", " ", "P", "r", "e", "m", "i", "u", "m">> >>,
     << <<<<"S", "w", "i", "m", "m", "i", "n", "g", " ", "P", "o", "o", "l", "s", " ", "F", "a", "c", "t", "o", "r", "s">>,
           <<"S", "w", "i", "m", "m", "i", "n", "g", " ", "P", "o", "o", "l", "s", " ", "F", "a", "c", "t", "o", "r">>,
           <<"S", "w", "i", "m", "m", "i", "n", "g", " ", "P", "o", "o", "l", " ", "F", "a", "c", "t", "o", "r", "s">>,
           <<"S", "w", "i", "m", "m", "i", "n", "g", " ", "P", "o", "o", "l", " ", "F", "a", "c", "t", "o", "r">>>>,
        <<"P", "o", "o", "l", " ", "F", "a", "c", "t", "o", "r">> >>,
     << <<<<"A", "m", "o", "u", "n", "t", " ", "o", "f", " ", "I", "n", "s", "u", "r", "a", "n", "c", "e", "/", "D", "e", "d", "u", "c", "t", "i", "b", "l", "e", "s">>,
           <<"A", "m", "o", "u", "n", "t", " ", "o", "f", " ", "I", "n", "s", "u", "r", "a", "n", "c", "e", "/", "D", "e", "d", "u", "c", "t", "i", "b", "l", "e">>>>,
        <<"A", "m", "o", "u", "n", "t", " ", "o", "f", " ", "I", "n", "s", "u", "r", "a", "n", "c", "e", " ", "/", " ", "D", "e", "d", "u", "c", "t", "i", "b", "l", "e", "s">> >> >>

\* does text v stand at position i of s between two word boundaries
WordAt(s, i, v) ==
    /\ i + Len(v) - 1 <= Len(s)
    /\ SubSeq(s, i, i + Len(v) - 1) = v
    /\ (i = 1 \/ ~IsWordChar(s[i - 1]))
    /\ (i + Len(v) - 1 = Len(s) \/ ~IsWordChar(s[i + Len(v)]))

\* re.sub(r'\b...\b', replacement, title) for one row of the table
RECURSIVE SubWords(_, _, _)
SubWords(s, i, row) ==
    IF i > Len(s) THEN <<>>
    ELSE IF \E n \in DOMAIN row[1] : WordAt(s, i, row[1][n])
    THEN LET n == CHOOSE n \in DOMAIN row[1] :
                     /\ WordAt(s, i, row[1][n])
                     /\ \A m \in 1..(n - 1) : ~WordAt(s, i, row[1][m])
         IN  row[2] \o SubWords(s, i + Len(row[1][n]), row)
    ELSE <<s[i]>> \o SubWords(s, i + 1, row)

RECURSIVE ApplyReplacements(_, _)
ApplyReplacements(s, k) ==
    IF k > Len(TitleReplacements) THEN s
    ELSE ApplyReplacements(SubWords(s, 1, TitleReplacements[k]), k + 1)

\* re.sub(r'([a-z])([A-Z]{2,}[A-Z/].*?)$', r'\1', title)
CutRunOn(s) ==
    LET hit(i) == /\ IsLower(s[i]) /\ i + 3 <= Len(s)
                  /\ IsUpper(s[i + 1]) /\ IsUpper(s[i + 2])
                  /\ (IsUpper(s[i + 3]) \/ s[i + 3] = "/")
    IN  IF \E i \in DOMAIN s : hit(i)
        THEN SubSeq(s, 1, CHOOSE i \in DOMAIN s :
                              hit(i) /\ \A j \in 1..(i - 1) : ~hit(j))
        ELSE s

\* re.sub(r'/[A-Z]{2,}.*$', '', title)
CutSlashUpper(s) ==
    LET hit(i) == /\ s[i] = "/" /\ i + 2 <= Len(s)
                  /\ IsUpper(s[i + 1]) /\ IsUpper(s[i + 2])
    IN  IF \E i \in DOMAIN s : hit(i)
        THEN SubSeq(s, 1, (CHOOSE i \in DOMAIN s :
                               hit(i) /\ \A j \in 1..(i - 1) : ~hit(j)) - 1)
        ELSE s

\* re.sub(r'\s+FACTORS?$', '', title)
FactorWord == <<"F", "A", "C", "T", "O", "R">>
CutFactor(s) ==
    LET cut(w) == IF /\ Len(s) > Len(w)
                     /\ SubSeq(s, Len(s) - Len(w) + 1, Len(s)) = w
                     /\ s[Len(s) - Len(w)] \in Whitespace
                  THEN RStrip(SubSeq(s, 1, Len(s) - Len(w)))
                  ELSE s
    IN  IF cut(FactorWord \o <<"S">>) # s THEN cut(FactorWord \o <<"S">>)
        ELSE cut(FactorWord)

clean_rule_title(title) ==
    ApplyReplacements(
        Strip(CutFactor(Replace(CutSlashUpper(CutRunOn(title)),
                                <<"/", "W", "a", "t", "e", "r">>, <<>>))), 1)

\* f"rule_{rule_number}"
ChunkId(rule_number) == <<"r", "u", "l", "e", "_">> \o rule_number

create_rule_chunk(rule_number, rule_title, part, part_name, start_page, end_page, content, source_document) ==
    [content |-> clean_text(content),
     page_number |-> start_page,
     chunk_id |-> ChunkId(rule_number),
     source_document |-> source_document,
     metadata |-> [rule_section |-> rule_number,
                   rule_title |-> rule_title,
                   part |-> part,
                   part_name |-> part_name,
                   start_page |-> start_page,
                   end_page |-> end_page]]

\* the parser's local state as one record
ParserState ==
    [current_rule |-> current_rule, current_content |-> current_content,
     current_part |-> current_part, current_part_name |-> current_part_name,
     chunks |-> chunks]

\* mutant: the chunk is saved but the content buffer is not emptied
SaveOpenRule_NoReset(st, source_doc) ==
    IF st.current_rule # <<>> /\ st.current_content # <<>>
    THEN LET r == st.current_rule[1]
         IN  [st EXCEPT !.chunks = Append(@, create_rule_chunk(
                            r.number, r.title, r.part, r.part_name, r.start_page,
                            r.end_page, Join(<<"\n">>, st.current_content),
                            source_doc))]
    ELSE st

\* mutant: the chunk takes the PART that is current when it is saved
SaveOpenRule_PartAtSave(st, source_doc) ==
    IF st.current_rule # <<>> /\ st.current_content # <<>>
    THEN LET r == st.current_rule[1]
         IN  [st EXCEPT !.chunks = Append(@, create_rule_chunk(
                            r.number, r.title, st.current_part,
                            st.current_part_name, r.start_page,
                            r.end_page, Join(<<"\n">>, st.current_content),
                            source_doc)),
                        !.current_content = <<>>]
    ELSE st

\* "Save previous rule chunk if exists"
SaveOpenRule(st, source_doc) ==
    IF st.current_rule # <<>> /\ st.current_content # <<>>
    THEN LET r == st.current_rule[1]
         IN  [st EXCEPT !.chunks = Append(@, create_rule_chunk(
                            r.number, r.title, r.part, r.part_name, r.start_page,
                            r.end_page, Join(<<"\n">>, st.current_content),
                            source_doc)),
                        !.current_content = <<>>]
    ELSE st

\* mutant: a content line is appended without advancing the rule's end_page
LineStep_NoEndPage(st, line, pg, source_doc) ==
    LET pm == part_match(line)
        rm == rule_match(line)
    IN  IF pm # None
        THEN [st EXCEPT !.current_part = <<pm[1]>>,
                        !.current_part_name = Strip(Tail(pm))]
        ELSE IF rm # <<>>
        THEN [SaveOpenRule(st, source_doc) EXCEPT
                 !.current_rule = <<[number |-> rm[1],
                                     title |-> clean_rule_title(rm[2]),
                                     part |-> st.current_part,
                                     part_name |-> st.current_part_name,
                                     start_page |-> pg,
                                     end_page |-> pg]>>]
        ELSE IF st.current_rule # <<>>
        THEN [st EXCEPT !.current_content = Append(@, line)]
        ELSE st

\* the body of  for i, line in enumerate(lines)
LineStep(st, line, pg, source_doc) ==
    LET pm == part_match(line)
        rm == rule_match(line)
    IN  IF pm # None
        THEN [st EXCEPT !.current_part = <<pm[1]>>,
                        !.current_part_name = Strip(Tail(pm))]
        ELSE IF rm # <<>>
        THEN [SaveOpenRule(st, source_doc) EXCEPT
                 !.current_rule = <<[number |-> rm[1],
                                     title |-> clean_rule_title(rm[2]),
                                     part |-> st.current_part,
                                     part_name |-> st.current_part_name,
                                     start_page |-> pg,
                                     end_page |-> pg]>>]
        ELSE IF st.current_rule # <<>>
        THEN [st EXCEPT !.current_rule[1].end_page = pg,
                        !.current_content = Append(@, line)]
        ELSE st

RECURSIVE LinesLoop(_, _, _, _)
LinesLoop(st, lines, pg, source_doc) ==
    IF lines = <<>> THEN st
    ELSE LinesLoop(LineStep(st, lines[1], pg, source_doc), Tail(lines), pg,
                   source_doc)

\* "Don't forget the last rule"
LastRule(st, source_doc) ==
    IF st.current_rule # <<>> /\ st.current_content # <<>>
    THEN LET r == st.current_rule[1]
         IN  [st EXCEPT !.chunks = Append(@, create_rule_chunk(
                            r.number, r.title, r.part, r.part_name, r.start_page,
                            r.end_page, Join(<<"\n">>, st.current_content),
                            source_doc))]
    ELSE st

(***************************************************************************)
(* Inputs of RulesManualParser.parse: the text pdfplumber yields for a page *)
(***************************************************************************)
LinePartA == <<"P", "A", "R", "T", " ", "A", "-", "G">>
LineRuleA1 == <<"R", "u", "l", "e", " ", "A", "-", "1", ":", " ", "T">>
LineBoth == <<"P", "A", "R", "T", " ", "C", " ", "-", " ", "R", "u", "l", "e", " ", "C", "-", "3", ":", " ", "V">>
LineText1 == <<"[", "a">>
LineText2 == <<"b", "]">>
LineChoices == {LinePartA, LineRuleA1, LineBoth, LineText1, LineText2}

RulesFileName == <<"R", "u", "l", "e", "s", ".", "p", "d", "f">>

\* the lines of the pages read so far, empty pages skipped
RECURSIVE LinesUsed(_)
LinesUsed(d) ==
    IF d = <<>> THEN 0
    ELSE LinesUsed(Tail(d)) + (IF d[1] = <<>> THEN 0 ELSE Len(SplitLines(d[1])))

\* the pages without text among the pages read so far
EmptyPages(d) == Cardinality({i \in DOMAIN d : d[i] = <<>>})

\* the texts of a page of at most n lines; the empty text is a page without text
PageTextChoices(n) ==
    {<<>>} \cup UNION {{Join(<<"\n">>, ls) : ls \in [1..k -> LineChoices]} : k \in 1..n}

\* mutant: a page without text is read as a page of one empty line
ParseRulesPage_EmptyAsLine ==
    /\ pc = "rules"
    /\ \E text \in PageTextChoices(MaxLines - LinesUsed(doc)) :
          /\ IF text = <<>> THEN EmptyPages(doc) < MaxEmptyPages
                            ELSE Len(doc) - EmptyPages(doc) < MaxRulePages
          /\ LET st == IF FALSE THEN ParserState
                    ELSE LinesLoop(ParserState, SplitLines(text),
                                   rules_page_num + 1, RulesFileName)
            IN  /\ doc' = Append(doc, text)
                /\ current_rule' = st.current_rule
                /\ current_content' = st.current_content
                /\ current_part' = st.current_part
                /\ current_part_name' = st.current_part_name
                /\ chunks' = st.chunks
    /\ rules_page_num' = rules_page_num + 1
    /\ UNCHANGED <<pc, rateVars, toolVars>>

\* one iteration of  for page_num, page in enumerate(pdf.pages, start=1)
ParseRulesPage ==
    /\ pc = "rules"
    /\ \E text \in PageTextChoices(MaxLines - LinesUsed(doc)) :
          /\ IF text = <<>> THEN EmptyPages(doc) < MaxEmptyPages
                            ELSE Len(doc) - EmptyPages(doc) < MaxRulePages
          /\ LET st == IF text = <<>> THEN ParserState
                    ELSE LinesLoop(ParserState, SplitLines(text),
                                   rules_page_num + 1, RulesFileName)
            IN  /\ doc' = Append(doc, text)
                /\ current_rule' = st.current_rule
                /\ current_content' = st.current_content
                /\ current_part' = st.current_part
                /\ current_part_name' = st.current_part_name
                /\ chunks' = st.chunks
    /\ rules_page_num' = rules_page_num + 1
    /\ UNCHANGED <<pc, rateVars, toolVars>>

\* the page loop ends: the last rule, and the chunks are returned
RulesEnd ==
    /\ pc = "rules"
    /\ chunks' = LastRule(ParserState, RulesFileName).chunks
    /\ pc' = "rules_done"
    /\ UNCHANGED <<rules_page_num, doc, current_rule, current_content,
                   current_part, current_part_name>>
    /\ UNCHANGED <<rateVars, toolVars>>

InitRules == pc = "rules" /\ RateIdle /\ RulesIdle /\ ToolIdle
NextRules == ParseRulesPage \/ RulesEnd
SpecRules == InitRules /\ [][NextRules]_vars

(***************************************************************************)
(* Claims about RulesManualParser.parse                                    *)
(***************************************************************************)
\* the lines of the document in reading order; a page without text has none
RECURSIVE DocLines(_)
DocLines(d) ==
    IF d = <<>> THEN <<>>
    ELSE (IF d[1] = <<>> THEN <<>> ELSE SplitLines(d[1])) \o DocLines(Tail(d))

\* the PART header lines and the rule header lines among the input lines,
\* classified once: a PART header line matches the PART pattern; a rule header
\* line matches the rule pattern and is not a PART header line (the PART
\* pattern is tried first)
PartLines ==
    UNION {IF part_match(l) # None THEN {l} ELSE {} : l \in LineChoices}
RuleLines ==
    UNION {IF part_match(l) = None /\ rule_match(l) # <<>> THEN {l} ELSE {} :
              l \in LineChoices}
IsPartHeader(line) == line \in PartLines
IsRuleHeader(line) == line \in RuleLines
IsBodyLine(line) == ~IsPartHeader(line) /\ ~IsRuleHeader(line)

\* the position of the first rule header after position i, or Len(L) + 1
NextRuleHeader(L, i) ==
    IF \E j \in (i + 1)..Len(L) : IsRuleHeader(L[j])
    THEN CHOOSE j \in (i + 1)..Len(L) :
            IsRuleHeader(L[j]) /\ \A n \in (i + 1)..(j - 1) : ~IsRuleHeader(L[n])
    ELSE Len(L) + 1

\* the body lines between the rule header at i and the next rule header
RECURSIVE BodyBetween(_, _, _)
BodyBetween(L, from, to) ==
    IF from >= to THEN <<>>
    ELSE (IF IsBodyLine(L[from]) THEN <<L[from]>> ELSE <<>>)
         \o BodyBetween(L, from + 1, to)
BodyOf(L, i) == BodyBetween(L, i + 1, NextRuleHeader(L, i))

\* the rule headers that have a body, in order; while the input is still being
\* read only those whose rule has been closed by a later rule header
RECURSIVE ChunkHeaders(_, _, _)
ChunkHeaders(L, i, final) ==
    IF i > Len(L) THEN <<>>
    ELSE (IF /\ IsRuleHeader(L[i])
             /\ BodyOf(L, i) # <<>>
             /\ (final \/ NextRuleHeader(L, i) <= Len(L))
          THEN <<i>> ELSE <<>>)
         \o ChunkHeaders(L, i + 1, final)

\* letter and name of the last PART header before position i
PartBefore(L, i) ==
    IF \E j \in 1..(i - 1) : IsPartHeader(L[j])
    THEN LET j == CHOOSE j \in 1..(i - 1) :
                     IsPartHeader(L[j]) /\ \A n \in (j + 1)..(i - 1) : ~IsPartHeader(L[n])
         IN  [part |-> <<part_match(L[j])[1]>>,
              part_name |-> Strip(Tail(part_match(L[j])))]
    ELSE [part |-> None, part_name |-> None]

\* C5: every emitted rule chunk's part and part_name are the letter and name of
\* the last PART header line before the chunk's rule header line in document
\* order (across page breaks), and null when there is none; a PART header read
\* after the rule was opened never changes the chunk's part.
C5_ChunkPart ==
    LET L == DocLines(doc)
        H == ChunkHeaders(L, 1, pc = "rules_done")
    IN  /\ Len(chunks) = Len(H)
        /\ \A k \in DOMAIN chunks :
              /\ chunks[k].metadata.part = PartBefore(L, H[k]).part
              /\ chunks[k].metadata.part_name = PartBefore(L, H[k]).part_name

C5_Witness ==
    /\ pc = "rules_done"
    /\ Len(doc) = 2 /\ doc[1] # <<>> /\ doc[2] # <<>>
    /\ Len(chunks) = 1
    /\ chunks[1].metadata.part = <<"A">>
    /\ chunks[1].metadata.part_name = <<"G">>
    /\ chunks[1].metadata.start_page = 2
    /\ current_part = <<"C">>

\* C6: parse emits, in document order, exactly one chunk for each rule header
\* line that is followed by at least one line that is neither a PART header nor
\* a rule header before the next rule header or the end of input, and its
\* content is built from exactly those lines in order; lines before the first
\* rule header and rule headers without such a line produce no chunk; the rule
\* open at the end of input is emitted when it has content.
C6_ChunkPerRule ==
    LET L == DocLines(doc)
        H == ChunkHeaders(L, 1, pc = "rules_done")
    IN  /\ Len(chunks) = Len(H)
        /\ \A k \in DOMAIN chunks :
              /\ chunks[k].metadata.rule_section = rule_match(L[H[k]])[1]
              /\ chunks[k].content = clean_text(Join(<<"\n">>, BodyOf(L, H[k])))

C6_Witness ==
    /\ pc = "rules_done"
    /\ Len(chunks) = 2
    /\ chunks[1].content # chunks[2].content
    /\ LinesUsed(doc) = 4
    /\ current_content # <<>>

\* C14: among the chunks parse produces from one source document no two have
\* the same rule id, also when the same rule header line occurs more than once.
C14_UniqueRuleIds ==
    \A i, j \in DOMAIN chunks :
        i # j => chunks[i].metadata.rule_section # chunks[j].metadata.rule_section

\* the page of every line of DocLines(d), from page p on
RECURSIVE LinePages(_, _)
LinePages(d, p) ==
    IF p > Len(d) THEN <<>>
    ELSE [i \in 1..(IF d[p] = <<>> THEN 0 ELSE Len(SplitLines(d[p]))) |-> p]
         \o LinePages(d, p + 1)
\* the position of the last body line of the rule whose header is at i
LastBody(L, i) ==
    CHOOSE j \in (i + 1)..(NextRuleHeader(L, i) - 1) :
        IsBodyLine(L[j]) /\ \A n \in (j + 1)..(NextRuleHeader(L, i) - 1) : ~IsBodyLine(L[n])

\* C15: every emitted chunk has end_page >= start_page >= 1, start_page is the
\* page of its rule header line, end_page is the page of the last content line
\* appended to it, and the start pages of successive chunks never decrease.
C15_ChunkPages ==
    LET L == DocLines(doc)
        P == LinePages(doc, 1)
        H == ChunkHeaders(L, 1, pc = "rules_done")
    IN  /\ Len(chunks) = Len(H)
        /\ \A k \in DOMAIN chunks :
              /\ chunks[k].metadata.start_page = P[H[k]]
              /\ chunks[k].page_number = P[H[k]]
              /\ chunks[k].metadata.end_page = P[LastBody(L, H[k])]
              /\ chunks[k].metadata.end_page >= chunks[k].metadata.start_page
              /\ chunks[k].metadata.start_page >= 1
              /\ k > 1 => chunks[k - 1].metadata.start_page
                              <= chunks[k].metadata.start_page

C15_Witness ==
    /\ pc = "rules_done"
    /\ Len(chunks) = 2
    /\ chunks[1].metadata.start_page = 1 /\ chunks[1].metadata.end_page = 2
    /\ chunks[2].metadata.start_page = 2

\* C24: a page without text changes nothing in RulesManualParser.parse: the
\* open rule with its end page, the content buffer, the current PART and the
\* chunks are the same after the page as before it and the loop goes on; a
\* document with such a page still gives one chunk per rule header with body.
C24_EmptyPageNoEffect ==
    /\ [][(pc = "rules" /\ doc' = Append(doc, <<>>)) =>
             /\ UNCHANGED <<current_rule, current_content, current_part,
                            current_part_name, chunks>>
             /\ pc' = "rules" /\ rules_page_num' = rules_page_num + 1]_vars
    /\ [](EmptyPages(doc) > 0 =>
             Len(chunks) = Len(ChunkHeaders(DocLines(doc), 1, pc = "rules_done")))

\* a rule that starts on page 1 and continues on page 3, after a page without
\* text, is one chunk of pages 1 to 3
C24_Witness ==
    /\ pc = "rules_done" /\ Len(doc) = 3 /\ doc[2] = <<>>
    /\ Len(chunks) = 1
    /\ chunks[1].metadata.start_page = 1 /\ chunks[1].metadata.end_page = 3
    /\ chunks[1].content = LineText1 \o <<" ">> \o LineText1

\* C27: the content of every rule chunk contains no bracket-delimited span
\* '[...]', also when the two brackets were on different lines, no run of two
\* or more whitespace characters, and no leading or trailing whitespace.
C27_ContentClean ==
    \A k \in DOMAIN chunks :
        LET c == chunks[k].content
        IN  /\ ~\E i, j \in DOMAIN c : i < j /\ c[i] = "[" /\ c[j] = "]"
            /\ \A i \in 1..(Len(c) - 1) : ~(c[i] \in Whitespace /\ c[i + 1] \in Whitespace)
            /\ c # <<>> => (c[1] \notin Whitespace /\ c[Len(c)] \notin Whitespace)

(***************************************************************************)
(* The two parsers as functions of a whole file, as PDFToolkit calls them. *)
(* A file is [name, pages]; a page is [text, tables], what pdfplumber      *)
(* yields for it.                                                          *)
(***************************************************************************)
\* the loop of _merge_multi_page_tables from position i on
RECURSIVE MergeWalk(_, _, _, _)
MergeWalk(sorted, i, group, out) ==
    IF i > Len(sorted) THEN Append(out, merge_table_group(group))
    ELSE IF should_merge(sorted[i], group[Len(group)])
         THEN MergeWalk(sorted, i + 1, Append(group, sorted[i]), out)
         ELSE MergeWalk(sorted, i + 1, <<sorted[i]>>,
                        Append(out, merge_table_group(group)))

merge_multi_page_tables(tbls) ==
    IF tbls = <<>> THEN <<>>
    ELSE MergeWalk(SortByPage(tbls), 2, <<SortByPage(tbls)[1]>>, <<>>)

\* RatePagesParser.parse: (text_chunks, merged_tables)
RatePagesParser_parse(file) ==
    [text_chunks |->
        Concat([p \in DOMAIN file.pages |->
                   PageChunk(file.name, p, file.pages[p].text)]),
     tables |->
        merge_multi_page_tables(
            Concat([p \in DOMAIN file.pages |->
                       PageFragments(file.name, p, file.pages[p].text,
                                     file.pages[p].tables, 1)]))]

\* the locals of RulesManualParser.parse before the first page
NewParserState ==
    [current_rule |-> <<>>, current_content |-> <<>>,
     current_part |-> None, current_part_name |-> None, chunks |-> <<>>]

\* the page loop of RulesManualParser.parse from page p on
RECURSIVE RulesPages(_, _, _, _)
RulesPages(st, pages, p, source_doc) ==
    IF p > Len(pages) THEN st
    ELSE RulesPages(IF pages[p].text = <<>> THEN st
                    ELSE LinesLoop(st, SplitLines(pages[p].text), p, source_doc),
                    pages, p + 1, source_doc)

RulesManualParser_parse(file) ==
    LastRule(RulesPages(NewParserState, file.pages, 1, file.name),
             file.name).chunks

(***************************************************************************)
(* PDFToolkit (agent_tools.py), built with use_cache=False, so that        *)
(* cache_manager is None and _initialize_parsers always parses the folder  *)
(***************************************************************************)
MaxFiles == 2           \* files of the PDF folder

\* program constants of extract_table
SampleRowLimit == 5
MatchingRowLimit == 10

Min(S) == CHOOSE x \in S : \A y \in S : x <= y
Take(s, n) == SubSeq(s, 1, IF Len(s) < n THEN Len(s) ELSE n)
EndsWith(s, suffix) ==
    Len(s) >= Len(suffix) /\ SubSeq(s, Len(s) - Len(suffix) + 1, Len(s)) = suffix
\* bool(x) of an Optional[str]
Truthy(x) == x # None /\ x # <<>>

DotPdf == <<".", "p", "d", "f">>
RulesWord == <<"R", "u", "l", "e", "s">>
ManualWord == <<"M", "a", "n", "u", "a", "l">>
RateWord == <<"R", "a", "t", "e">>
PagesWord == <<"P", "a", "g", "e", "s">>

\* [f for f in os.listdir(self.pdfs_folder) if f.endswith('.pdf')]
PdfFiles(fs) == SelectSeq(fs, LAMBDA f : EndsWith(f.name, DotPdf))
\* 'Rules' in pdf_file or 'Manual' in pdf_file
IsRulesFile(f) == IsSubstring(RulesWord, f.name) \/ IsSubstring(ManualWord, f.name)
\* 'Rate' in pdf_file or 'Pages' in pdf_file
IsRateFile(f) == IsSubstring(RateWord, f.name) \/ IsSubstring(PagesWord, f.name)

\* lst.extend(more) on an Optional list that "if lst is None: lst = []" precedes
Extend(opt, more) == <<(IF opt = <<>> THEN <<>> ELSE opt[1]) \o more>>
\* self._tables or []
OrEmpty(opt) == IF opt = <<>> THEN <<>> ELSE opt[1]

\* the results of the two table queries: a kind and what the string carries
Raise == [kind |-> "raise", value |-> <<>>]
NoTableData == [kind |-> "no_data", value |-> <<>>]
ExhibitNotFound(exhibit_name) == [kind |-> "exhibit_not_found", value |-> exhibit_name]
ColumnNotFound(col_name) == [kind |-> "col_not_found", value |-> col_name]
NoMatchingRow(criteria) == [kind |-> "no_match", value |-> criteria]

\* exhibit_name.lower() in table.exhibit_name.lower()
NameMatches(exhibit_name, table) ==
    IsSubstring(Lower(exhibit_name), Lower(table.exhibit_name))

\* mutant: only the first table with a matching name
MatchingTables_First(tbls, exhibit_name) ==
    Take(SelectSeq(tbls, LAMBDA t : NameMatches(exhibit_name, t)), 1)

\* matching_tables of extract_table
MatchingTables(tbls, exhibit_name) ==
    SelectSeq(tbls, LAMBDA t : NameMatches(exhibit_name, t))

\* any(desc_lower in str(cell).lower() for cell in row)
RowMentions(row, description) ==
    \E c \in DOMAIN row : IsSubstring(Lower(description), Lower(Str(row[c])))

\* the block of one table in the result of extract_table
FormatTable(table, description) ==
    LET matching_rows == SelectSeq(table.data,
                                   LAMBDA row : RowMentions(row, description))
    IN  [exhibit_name |-> table.exhibit_name,
         page_number |-> table.page_number,
         headers |-> table.headers,
         rows |-> Len(table.data),
         body |-> IF Truthy(description)
                  THEN IF matching_rows # <<>>
                       THEN [kind |-> "matching", count |-> Len(matching_rows),
                             shown |-> Take(matching_rows, MatchingRowLimit)]
                       ELSE [kind |-> "no_rows", count |-> 0, shown |-> <<>>]
                  ELSE [kind |-> "sample", count |-> Len(table.data),
                        shown |-> Take(table.data, SampleRowLimit)]]

\* PDFToolkit.extract_table; the blocks stand for "\n---\n".join(results)
extract_table(tbls, exhibit_name, description) ==
    IF OrEmpty(tbls) = <<>> THEN NoTableData
    ELSE LET matching_tables == MatchingTables(tbls[1], exhibit_name)
         IN  IF matching_tables = <<>> THEN ExhibitNotFound(exhibit_name)
             ELSE [kind |-> "tables",
                   value |-> [i \in DOMAIN matching_tables |->
                                 FormatTable(matching_tables[i], description)]]

\* for i, header in enumerate(headers): if name.lower() in header.lower(): ...
\* header.lower() raises AttributeError on a header that is None
ColumnIndex(headers, name) ==
    LET stops == {i \in DOMAIN headers :
                     \/ headers[i] = None
                     \/ IsSubstring(Lower(name), Lower(headers[i]))}
    IN  IF stops = {} THEN [kind |-> "none", i |-> 0]
        ELSE IF headers[Min(stops)] = None THEN [kind |-> "raise", i |-> 0]
        ELSE [kind |-> "index", i |-> Min(stops)]

\* the loop over search_criteria.items() for one row, from criterion k on;
\* row[col_idx] raises IndexError on a row that is too short
RECURSIVE RowOutcome(_, _, _, _)
RowOutcome(headers, row, criteria, k) ==
    IF k > Len(criteria) THEN [kind |-> "match", col |-> <<>>]
    ELSE LET col_name == criteria[k][1]
             col_value == criteria[k][2]
             col_idx == ColumnIndex(headers, col_name)
         IN  IF col_idx.kind = "raise" THEN [kind |-> "raise", col |-> <<>>]
             ELSE IF col_idx.kind = "none"
             THEN [kind |-> "col_not_found", col |-> col_name]
             ELSE IF col_idx.i > Len(row) THEN [kind |-> "raise", col |-> <<>>]
             ELSE IF ~IsSubstring(Lower(Str(col_value)), Lower(Str(row[col_idx.i])))
             THEN [kind |-> "skip", col |-> <<>>]
             ELSE RowOutcome(headers, row, criteria, k + 1)

\* if matches: the row, or str(row[ret_col_idx])
ReturnFrom(headers, row, return_column) ==
    IF Truthy(return_column)
    THEN LET ret_col_idx == ColumnIndex(headers, return_column)
         IN  IF ret_col_idx.kind = "raise" THEN Raise
             ELSE IF ret_col_idx.kind = "none" THEN ColumnNotFound(return_column)
             ELSE IF ret_col_idx.i > Len(row) THEN Raise
             ELSE [kind |-> "cell", value |-> Str(row[ret_col_idx.i])]
    ELSE [kind |-> "row", value |-> row]

\* for row in matching_table.data, from row r on
RECURSIVE RowsLoop(_, _, _, _)
RowsLoop(table, criteria, return_column, r) ==
    IF r > Len(table.data) THEN NoMatchingRow(criteria)
    ELSE LET row == table.data[r]
             o == RowOutcome(table.headers, row, criteria, 1)
         IN  IF o.kind = "skip" THEN RowsLoop(table, criteria, return_column, r + 1)
             ELSE IF o.kind = "raise" THEN Raise
             ELSE IF o.kind = "col_not_found" THEN ColumnNotFound(o.col)
             ELSE ReturnFrom(table.headers, row, return_column)

\* PDFToolkit.find_value_in_table; criteria is the dict as its list of items
find_value_in_table(tbls, exhibit_name, criteria, return_column) ==
    IF OrEmpty(tbls) = <<>> THEN NoTableData
    ELSE LET found == {i \in DOMAIN tbls[1] : NameMatches(exhibit_name, tbls[1][i])}
         IN  IF found = {} THEN ExhibitNotFound(exhibit_name)
             ELSE RowsLoop(tbls[1][Min(found)], criteria, return_column, 1)

(***************************************************************************)
(* Inputs of PDFToolkit: the files of the folder and the queries           *)
(***************************************************************************)
Form == <<"F", "o", "r", "m">>
Fac == <<"F", "a", "c">>
HO3 == <<"H", "O", "3">>
HO4 == <<"H", "O", "4">>
HdrForm == <<Form, Fac>>

\* raw tables as pdfplumber yields them: the header row, then the data rows
TblHO3 == <<HdrForm, <<HO3, <<"2">>>>>>
TblHO4 == <<HdrForm, <<HO4, <<"3">>>>>>
TblNoRows == <<HdrForm>>
TblNoneHdr == <<<<None, Fac>>, <<HO3, <<"2">>>>>>
TblRagged == <<HdrForm, <<HO3>>, <<HO4, <<"3">>, <<"z">>>>>>

Page(text, page_tables) == [text |-> text, tables |-> page_tables]

FileRateA == [name |-> <<"R", "a", "t", "e", "A", ".", "p", "d", "f">>,
              pages |-> <<Page(Text6, <<TblHO3>>)>>]
FilePagesB == [name |-> <<"P", "a", "g", "e", "s", "B", ".", "p", "d", "f">>,
               pages |-> <<Page(Text6, <<TblHO4>>)>>]
FileRateC == [name |-> <<"R", "a", "t", "e", "C", ".", "p", "d", "f">>,
              pages |-> <<Page(Text6, <<TblNoRows>>), Page(Text1, <<TblNoneHdr>>)>>]
FileRateD == [name |-> <<"R", "a", "t", "e", "D", ".", "p", "d", "f">>,
              pages |-> <<Page(Text1, <<TblRagged>>)>>]
FileRules == [name |-> RulesFileName,
              pages |-> <<Page(LinePartA \o <<"\n">> \o LineRuleA1 \o <<"\n">> \o LineText1,
                               <<>>)>>]
FileManualRate == [name |-> <<"M", "a", "n", "u", "a", "l", "R", "a", "t", "e", ".", "p", "d", "f">>,
                   pages |-> <<Page(LineRuleA1 \o <<"\n">> \o Text1, <<TblHO3>>)>>]
FileOther == [name |-> <<"O", "t", "h", "e", "r", ".", "p", "d", "f">>,
              pages |-> <<Page(Text6, <<TblHO3>>)>>]
FileNotes == [name |-> <<"n", "o", "t", "e", "s", ".", "t", "x", "t">>, pages |-> <<>>]

FileChoices == {FileRateA, FilePagesB, FileRateC, FileRateD, FileRules,
                FileManualRate, FileOther, FileNotes}

\* the folders: at most MaxFiles files, in any listing order
FolderChoices ==
    UNION {{fs \in [1..n -> FileChoices] :
               \A i, j \in 1..n : i # j => fs[i] # fs[j]} : n \in 0..MaxFiles}

ExhibitNameChoices == {Text6, Lower(Text1)}
Zzz == <<"Z", "z", "z">>
CriteriaChoices ==
    {<<>>,
     <<<<Lower(Form), Lower(HO3)>>>>,
     <<<<Form, HO4>>>>,
     <<<<Zzz, <<"x">>>>>>,
     <<<<Form, HO4>>, <<Zzz, <<"x">>>>>>}
ReturnColumnChoices == {None, Lower(Fac), Zzz}
DescriptionChoices == {None, Lower(HO3), Zzz}

(***************************************************************************)
(* PDFToolkit: _initialize_parsers file by file, then the queries          *)
(***************************************************************************)
\* cached_data = self.cache_manager.load(...) is a hit: a tuple of three lists
\* is truthy whatever the lists hold
CacheHit == env.use_cache /\ cache # <<>>

\* pdfplumber.open(pdf_path) raises for this file
Unreadable(pdf_file) == pdf_file.name \in env.unreadable

\* mutant: the tables are left out of the pickled tuple
CacheSnapshot_NoTables(rchunks, tchunks, tbls) ==
    [rules_chunks |-> OrEmpty(rchunks), rate_chunks |-> OrEmpty(tchunks),
     tables |-> <<>>]

\* the tuple cache_manager.save pickles:
\* (self._rules_chunks or [], self._rate_chunks or [], self._tables or [])
CacheSnapshot(rchunks, tchunks, tbls) ==
    [rules_chunks |-> OrEmpty(rchunks), rate_chunks |-> OrEmpty(tchunks),
     tables |-> OrEmpty(tbls)]

\* the cache holds the folder: the three lists are taken from it and
\* _initialize_parsers returns
LoadFromCache ==
    /\ pc = "init" /\ file_idx = 0
    /\ CacheHit
    /\ rules_chunks' = <<cache[1].rules_chunks>>
    /\ rate_chunks' = <<cache[1].rate_chunks>>
    /\ toolkit_tables' = <<cache[1].tables>>
    /\ pc' = "ready"
    /\ UNCHANGED <<folder, file_idx, call, result, buildVars>>
    /\ UNCHANGED <<rateVars, rulesVars, cacheVars, agentVars>>

\* os.listdir(self.pdfs_folder) raises for a folder that does not exist, and
\* the constructor raises with it
ListdirFails ==
    /\ pc = "init" /\ file_idx = 0
    /\ ~CacheHit /\ ~env.exists
    /\ pc' = "failed"
    /\ UNCHANGED <<folder, file_idx, rules_chunks, rate_chunks, toolkit_tables,
                   call, result, buildVars>>
    /\ UNCHANGED <<rateVars, rulesVars, cacheVars, agentVars>>

\* one iteration of  for pdf_file in pdf_files ; a parser that cannot open
\* the file raises, and the constructor raises with it
ParseFile ==
    /\ pc = "init"
    /\ ~CacheHit /\ env.exists
    /\ file_idx < Len(PdfFiles(folder))
    /\ LET pdf_file == PdfFiles(folder)[file_idx + 1]
           parsed == RatePagesParser_parse(pdf_file)
       IN  IF Unreadable(pdf_file) /\ (IsRulesFile(pdf_file) \/ IsRateFile(pdf_file))
           THEN /\ rules_chunks' = IF IsRulesFile(pdf_file)
                                   THEN Extend(rules_chunks, <<>>)
                                   ELSE rules_chunks
                /\ pc' = "failed"
                /\ UNCHANGED <<rate_chunks, toolkit_tables, file_idx>>
           ELSE /\ rules_chunks' = IF IsRulesFile(pdf_file)
                                   THEN Extend(rules_chunks,
                                               RulesManualParser_parse(pdf_file))
                                   ELSE rules_chunks
                /\ rate_chunks' = IF IsRateFile(pdf_file)
                                  THEN Extend(rate_chunks, parsed.text_chunks)
                                  ELSE rate_chunks
                /\ toolkit_tables' = IF IsRateFile(pdf_file)
                                     THEN Extend(toolkit_tables, parsed.tables)
                                     ELSE toolkit_tables
                /\ file_idx' = file_idx + 1
                /\ UNCHANGED pc
    /\ UNCHANGED <<folder, call, result, buildVars>>
    /\ UNCHANGED <<rateVars, rulesVars, cacheVars, agentVars>>

\* the loop over pdf_files ends, the lists are saved to the cache when there
\* is a cache manager, and the constructor returns
ParsersReady ==
    /\ pc = "init"
    /\ ~CacheHit /\ env.exists
    /\ file_idx = Len(PdfFiles(folder))
    /\ cache' = IF env.use_cache
                THEN <<CacheSnapshot(rules_chunks, rate_chunks, toolkit_tables)>>
                ELSE cache
    /\ pc' = "ready"
    /\ UNCHANGED <<folder, file_idx, rules_chunks, rate_chunks, toolkit_tables,
                   call, result, env, toolkit1>>
    /\ UNCHANGED <<rateVars, rulesVars, cacheVars, agentVars>>

\* a call of extract_table(exhibit_name, description)
ExtractTable ==
    /\ pc = "ready"
    /\ \E exhibit_name \in ExhibitNameChoices, description \in DescriptionChoices :
          /\ call' = [op |-> "extract_table", exhibit_name |-> exhibit_name,
                      criteria |-> <<>>, arg |-> description]
          /\ result' = extract_table(toolkit_tables, exhibit_name, description)
    /\ UNCHANGED <<pc, folder, file_idx, rules_chunks, rate_chunks, toolkit_tables,
                   buildVars>>
    /\ UNCHANGED <<rateVars, rulesVars, cacheVars, agentVars>>

\* a call of find_value_in_table(exhibit_name, search_criteria, return_column)
FindValue ==
    /\ pc = "ready"
    /\ \E exhibit_name \in ExhibitNameChoices, criteria \in CriteriaChoices,
          return_column \in ReturnColumnChoices :
          /\ call' = [op |-> "find_value_in_table", exhibit_name |-> exhibit_name,
                      criteria |-> criteria, arg |-> return_column]
          /\ result' = find_value_in_table(toolkit_tables, exhibit_name, criteria,
                                           return_column)
    /\ UNCHANGED <<pc, folder, file_idx, rules_chunks, rate_chunks, toolkit_tables,
                   buildVars>>
    /\ UNCHANGED <<rateVars, rulesVars, cacheVars, agentVars>>

InitToolkit ==
    /\ pc = "init" /\ RateIdle /\ RulesIdle /\ BuildIdle /\ CacheIdle /\ AgentIdle
    /\ folder \in FolderChoices /\ file_idx = 0
    /\ rules_chunks = <<>> /\ rate_chunks = <<>> /\ toolkit_tables = <<>>
    /\ call = NoCall /\ result = NoResult
NextToolkit == ParseFile \/ ParsersReady \/ ExtractTable \/ FindValue
SpecToolkit == InitToolkit /\ [][NextToolkit]_vars

(***************************************************************************)
(* Claims about PDFToolkit.find_value_in_table and extract_table           *)
(***************************************************************************)
\* the corpus of tables once the toolkit is built
Corpus == OrEmpty(toolkit_tables)
\* the positions of the Exhibits whose name contains the called name
Candidates == {i \in DOMAIN Corpus : NameMatches(call.exhibit_name, Corpus[i])}
\* no header is missing and every row has one cell per header
WellFormed(table) ==
    /\ \A h \in DOMAIN table.headers : table.headers[h] # None
    /\ \A r \in DOMAIN table.data : Len(table.data[r]) = Len(table.headers)
\* the first header that contains the name, 0 if there is none
Resolved(table, name) ==
    LET hits == {h \in DOMAIN table.headers :
                    table.headers[h] # None
                    /\ IsSubstring(Lower(name), Lower(table.headers[h]))}
    IN  IF hits = {} THEN 0 ELSE Min(hits)
\* every criterion's value is contained in the cell at its resolved column
RowSatisfies(table, r, criteria) ==
    \A k \in DOMAIN criteria :
        /\ Resolved(table, criteria[k][1]) # 0
        /\ IsSubstring(Lower(criteria[k][2]),
                       Lower(Str(table.data[r][Resolved(table, criteria[k][1])])))
\* the query is about well-formed tables in which every named column exists
PlainLookup ==
    /\ pc = "ready" /\ call.op = "find_value_in_table"
    /\ \A i \in Candidates :
          /\ WellFormed(Corpus[i])
          /\ \A k \in DOMAIN call.criteria :
                Resolved(Corpus[i], call.criteria[k][1]) # 0
          /\ Truthy(call.arg) => Resolved(Corpus[i], call.arg) # 0
\* the Exhibits, among the candidates, that have a satisfying row
WithHit == {i \in Candidates :
               \E r \in DOMAIN Corpus[i].data :
                   RowSatisfies(Corpus[i], r, call.criteria)}
FirstHitRow(i) == Min({r \in DOMAIN Corpus[i].data :
                          RowSatisfies(Corpus[i], r, call.criteria)})

\* C7: find_value_in_table returns the first row, in row order across all
\* Exhibits whose name contains exhibit_name taken in corpus order, that
\* satisfies every criterion (with return_column: that row's cell at the first
\* header containing the return column name); a satisfying row of the second
\* matching Exhibit is returned when the first matching Exhibit has none.
C7_FirstRowAcrossExhibits ==
    (PlainLookup /\ WithHit # {}) =>
        LET t == Corpus[Min(WithHit)]
            row == t.data[FirstHitRow(Min(WithHit))]
        IN  IF Truthy(call.arg)
            THEN result.kind = "cell"
                 /\ result.value = Str(row[Resolved(t, call.arg)])
            ELSE result.kind = "row" /\ result.value = row

\* C8: find_value_in_table answers "Column ... not found" whenever a
\* criterion's column name is contained in no header of the selected table,
\* whatever the rows are, and answers "No matching row found" only when
\* every criterion's column was resolved.
C8_ColumnNotFoundFirst ==
    (/\ pc = "ready" /\ call.op = "find_value_in_table"
     /\ Candidates # {} /\ WellFormed(Corpus[Min(Candidates)])) =>
        LET t == Corpus[Min(Candidates)]
            unresolved == {k \in DOMAIN call.criteria :
                              Resolved(t, call.criteria[k][1]) = 0}
        IN  /\ unresolved # {} => result.kind = "col_not_found"
            /\ result.kind = "no_match" => unresolved = {}

\* C9: for every loaded table, also with rows shorter or longer than the
\* header list and with header cells that are None, find_value_in_table
\* returns one of its result strings and never raises.
C9_FindValueNeverRaises ==
    (pc = "ready" /\ call.op = "find_value_in_table") =>
        result.kind \in {"row", "cell", "no_match", "col_not_found",
                         "exhibit_not_found", "no_data"}

\* the position in the folder of the file with this name
FilePos(name) == Min({i \in DOMAIN folder : folder[i].name = name})
\* the files that are routed to RatePagesParser, in listing order
RateFiles == SelectSeq(PdfFiles(folder), IsRateFile)
RECURSIVE SumTables(_)
SumTables(fs) ==
    IF fs = <<>> THEN 0
    ELSE Len(RatePagesParser_parse(fs[1]).tables) + SumTables(Tail(fs))
\* the file has an Exhibit with this name
HasExhibit(f, name) ==
    \E i \in DOMAIN RatePagesParser_parse(f).tables :
        RatePagesParser_parse(f).tables[i].exhibit_name = name
\* two rate documents of the folder both contain "Exhibit 6"
TwoDocsWithExhibit6 ==
    \E i, j \in DOMAIN RateFiles :
        i < j /\ HasExhibit(RateFiles[i], Text6) /\ HasExhibit(RateFiles[j], Text6)

\* C10: a corpus built from two source documents that each contain an
\* "Exhibit 6" holds two Exhibits with different table_ids (the results of
\* the files are concatenated in file order, nothing is deduplicated or merged
\* across files), and extract_table returns a block for every Exhibit whose
\* name contains the called name, case-insensitively, in corpus order, so
\* that "exhibit 1" finds "Exhibit 1".
C10_BothExhibitsKept ==
    pc = "ready" =>
        /\ Len(Corpus) = SumTables(RateFiles)
        /\ \A a, b \in DOMAIN Corpus :
              a < b => FilePos(Corpus[a].source_document)
                           <= FilePos(Corpus[b].source_document)
        /\ \A i, j \in DOMAIN RateFiles :
              (i < j /\ HasExhibit(RateFiles[i], Text6)
                     /\ HasExhibit(RateFiles[j], Text6)) =>
                 \E a, b \in DOMAIN Corpus :
                    /\ a < b
                    /\ Corpus[a].exhibit_name = Text6
                    /\ Corpus[b].exhibit_name = Text6
                    /\ Corpus[a].source_document = RateFiles[i].name
                    /\ Corpus[b].source_document = RateFiles[j].name
                    /\ Corpus[a].table_id # Corpus[b].table_id
        /\ (call.op = "extract_table" /\ Candidates # {}) =>
              /\ result.kind = "tables"
              /\ Len(result.value) = Cardinality(Candidates)
              /\ \A n \in DOMAIN result.value :
                    \E i \in Candidates :
                       /\ Cardinality({c \in Candidates : c <= i}) = n
                       /\ result.value[n].exhibit_name = Corpus[i].exhibit_name
                       /\ result.value[n].page_number = Corpus[i].page_number
                       /\ result.value[n].headers = Corpus[i].headers
                       /\ result.value[n].rows = Len(Corpus[i].data)
        /\ (/\ call.op = "extract_table" /\ call.exhibit_name = Lower(Text1)
            /\ \E i \in DOMAIN Corpus : Corpus[i].exhibit_name = Text1) =>
              /\ result.kind = "tables"
              /\ \E n \in DOMAIN result.value :
                    result.value[n].exhibit_name = Text1

C10_Witness ==
    /\ pc = "ready" /\ TwoDocsWithExhibit6
    /\ call.op = "extract_table" /\ call.exhibit_name = Text6
    /\ result.kind = "tables" /\ Len(result.value) = 2
    /\ Corpus[1].table_id # Corpus[2].table_id

(***************************************************************************)
(* PDFToolkit: the rule queries search_rules, find_part_by_description and *)
(* list_all_rules                                                          *)
(***************************************************************************)
\* program constants: chunk.content[:500], and the sort key of a rule id
\* without a number
ContentPreview == 500
NoNumberKey == 999

NoRulesData == [kind |-> "no_data", value |-> <<>>]

\* str.count(sub): the non-overlapping occurrences, found left to right
RECURSIVE Count(_, _)
Count(s, sub) ==
    IF sub = <<>> THEN Len(s) + 1
    ELSE IF Len(s) < Len(sub) THEN 0
    ELSE IF SubSeq(s, 1, Len(sub)) = sub
         THEN 1 + Count(SubSeq(s, Len(sub) + 1, Len(s)), sub)
         ELSE Count(Tail(s), sub)

\* the score search_rules gives a chunk
RuleScore(chunk, query) ==
    LET query_lower == Lower(query)
        content == Lower(chunk.content)
    IN  (IF IsSubstring(query_lower, Lower(chunk.metadata.rule_title))
         THEN 10 ELSE 0)
        + (IF IsSubstring(query_lower, content)
           THEN Count(content, query_lower) ELSE 0)
        + (IF IsSubstring(query_lower, Lower(chunk.metadata.rule_section))
           THEN 5 ELSE 0)

\* scored.sort(reverse=True, key=lambda x: x[0]): descending and stable;
\* every element is <<score, item>>
RECURSIVE InsertByScore(_, _)
InsertByScore(s, t) ==
    IF s = <<>> THEN <<t>>
    ELSE IF s[1][1] >= t[1] THEN <<s[1]>> \o InsertByScore(Tail(s), t)
    ELSE <<t>> \o s
RECURSIVE SortByScore(_)
SortByScore(s) ==
    IF s = <<>> THEN <<>>
    ELSE InsertByScore(SortByScore(SubSeq(s, 1, Len(s) - 1)), s[Len(s)])

\* the block of one chunk in the result of search_rules
FormatRule(chunk) ==
    [rule_section |-> chunk.metadata.rule_section,
     rule_title |-> chunk.metadata.rule_title,
     part |-> chunk.metadata.part,
     part_name |-> chunk.metadata.part_name,
     start_page |-> chunk.metadata.start_page,
     end_page |-> chunk.metadata.end_page,
     content |-> Take(chunk.content, ContentPreview)]

\* mutant: the scored chunks are cut to top_k without being sorted
search_rules_Unsorted(rchunks, query, part_filter, top_k) ==
    IF OrEmpty(rchunks) = <<>> THEN NoRulesData
    ELSE LET cs == IF Truthy(part_filter)
                   THEN SelectSeq(rchunks[1], LAMBDA c : c.metadata.part = part_filter)
                   ELSE rchunks[1]
             scored_chunks == SelectSeq([i \in DOMAIN cs |->
                                            <<RuleScore(cs[i], query), cs[i]>>],
                                        LAMBDA x : x[1] > 0)
             top_chunks == Take(scored_chunks, top_k)
         IN  IF top_chunks = <<>> THEN [kind |-> "no_rules", value |-> query]
             ELSE [kind |-> "rules",
                   value |-> [i \in DOMAIN top_chunks |-> FormatRule(top_chunks[i][2])]]

\* PDFToolkit.search_rules, for top_k >= 0
search_rules(rchunks, query, part_filter, top_k) ==
    IF OrEmpty(rchunks) = <<>> THEN NoRulesData
    ELSE LET cs == IF Truthy(part_filter)
                   THEN SelectSeq(rchunks[1], LAMBDA c : c.metadata.part = part_filter)
                   ELSE rchunks[1]
             scored_chunks == SelectSeq([i \in DOMAIN cs |->
                                            <<RuleScore(cs[i], query), cs[i]>>],
                                        LAMBDA x : x[1] > 0)
             top_chunks == Take(SortByScore(scored_chunks), top_k)
         IN  IF top_chunks = <<>> THEN [kind |-> "no_rules", value |-> query]
             ELSE [kind |-> "rules",
                   value |-> [i \in DOMAIN top_chunks |-> FormatRule(top_chunks[i][2])]]

\* description.split(): the maximal runs of non-whitespace characters
RECURSIVE SplitWords(_)
SplitWords(s) ==
    IF s = <<>> THEN <<>>
    ELSE IF s[1] \in Whitespace THEN SplitWords(Tail(s))
    ELSE LET n == CHOOSE n \in 1..Len(s) :
                     /\ \A k \in 1..n : s[k] \notin Whitespace
                     /\ (n = Len(s) \/ s[n + 1] \in Whitespace)
         IN  <<SubSeq(s, 1, n)>> \o SplitWords(SubSeq(s, n + 1, Len(s)))

\* the dict parts after the loop over the chunks, as <<part, part_name>> in
\* insertion order: the first name seen for a letter is kept
RECURSIVE PartsDict(_, _)
PartsDict(cs, parts) ==
    IF cs = <<>> THEN parts
    ELSE LET part == cs[1].metadata.part
             part_name == cs[1].metadata.part_name
         IN  PartsDict(Tail(cs),
                       IF /\ Truthy(part) /\ Truthy(part_name)
                          /\ \A k \in DOMAIN parts : parts[k][1] # part
                       THEN Append(parts, <<part, part_name>>)
                       ELSE parts)

\* the score find_part_by_description gives a PART name
PartScore(description, part_name) ==
    LET description_lower == Lower(description)
        part_name_lower == Lower(part_name)
        desc_words == SplitWords(description_lower)
        hits == {k \in DOMAIN desc_words :
                    Len(desc_words[k]) > 2 /\ IsSubstring(desc_words[k], part_name_lower)}
    IN  (IF IsSubstring(description_lower, part_name_lower) THEN 100 ELSE 0)
        + 10 * Cardinality(hits)

\* sorted(parts.items()): the letters of parts are distinct
LetterIndex(part) == CHOOSE i \in DOMAIN UpperChars : UpperChars[i] = part[1]
RECURSIVE SortByLetter(_)
SortByLetter(parts) ==
    IF parts = <<>> THEN <<>>
    ELSE LET k == CHOOSE k \in DOMAIN parts :
                     \A n \in DOMAIN parts :
                         LetterIndex(parts[k][1]) <= LetterIndex(parts[n][1])
         IN  <<parts[k]>> \o SortByLetter(SubSeq(parts, 1, k - 1)
                                              \o SubSeq(parts, k + 1, Len(parts)))

\* PDFToolkit.find_part_by_description
find_part_by_description(rchunks, description) ==
    IF OrEmpty(rchunks) = <<>> THEN NoRulesData
    ELSE LET parts == PartsDict(rchunks[1], <<>>)
             scored_parts == SelectSeq([k \in DOMAIN parts |->
                                           <<PartScore(description, parts[k][2]), parts[k]>>],
                                       LAMBDA x : x[1] > 0)
             sorted_parts == SortByScore(scored_parts)
         IN  IF parts = <<>> THEN [kind |-> "no_parts", value |-> <<>>]
             ELSE IF scored_parts = <<>>
             THEN [kind |-> "available", value |-> SortByLetter(parts)]
             ELSE [kind |-> "best",
                   value |-> [best |-> sorted_parts[1][2],
                              others |-> [k \in DOMAIN Take(Tail(sorted_parts), 3) |->
                                             Tail(sorted_parts)[k][2]]]]

StartsWith(s, prefix) == Len(s) >= Len(prefix) /\ SubSeq(s, 1, Len(prefix)) = prefix

\* int(digits)
RECURSIVE ToInt(_)
ToInt(digits) ==
    IF digits = <<>> THEN 0
    ELSE 10 * ToInt(SubSeq(digits, 1, Len(digits) - 1))
         + ((CHOOSE i \in DOMAIN Digits : Digits[i] = digits[Len(digits)]) - 1)

\* extract_rule_num: the integer of the leftmost  -(\d+) , else 999
extract_rule_num(rule_section) ==
    LET hit(i) == rule_section[i] = "-" /\ i < Len(rule_section)
                  /\ IsDigit(rule_section[i + 1])
    IN  IF \E i \in DOMAIN rule_section : hit(i)
        THEN LET i == CHOOSE i \in DOMAIN rule_section :
                          hit(i) /\ \A j \in 1..(i - 1) : ~hit(j)
             IN  ToInt(SubSeq(rule_section, i + 1,
                              TakeWhile(rule_section, i + 1, "digit") - 1))
        ELSE NoNumberKey

\* the dict seen_rules after the loop over the chunks, as <<rule_section, title>>
\* in insertion order
RECURSIVE SeenRules(_, _, _)
SeenRules(cs, part_filter, seen_rules) ==
    IF cs = <<>> THEN seen_rules
    ELSE LET rule_section == cs[1].metadata.rule_section
             title == cs[1].metadata.rule_title
         IN  SeenRules(Tail(cs), part_filter,
                 IF /\ Truthy(part_filter)
                    /\ ~StartsWith(rule_section, part_filter \o <<"-">>)
                 THEN seen_rules
                 ELSE IF /\ rule_section # <<>> /\ title # <<>>
                         /\ \A k \in DOMAIN seen_rules : seen_rules[k][1] # rule_section
                 THEN Append(seen_rules, <<rule_section, title>>)
                 ELSE seen_rules)

\* sorted(seen_rules.keys(), key=extract_rule_num): ascending and stable
RECURSIVE InsertByRuleNum(_, _)
InsertByRuleNum(s, t) ==
    IF s = <<>> THEN <<t>>
    ELSE IF extract_rule_num(s[Len(s)][1]) <= extract_rule_num(t[1]) THEN Append(s, t)
    ELSE Append(InsertByRuleNum(SubSeq(s, 1, Len(s) - 1), t), s[Len(s)])
RECURSIVE SortByRuleNum(_)
SortByRuleNum(s) ==
    IF s = <<>> THEN <<>>
    ELSE InsertByRuleNum(SortByRuleNum(SubSeq(s, 1, Len(s) - 1)), s[Len(s)])

\* mutant: the titles are listed in the order the rule ids were first seen
list_all_rules_Unsorted(rchunks, part_filter) ==
    IF OrEmpty(rchunks) = <<>> THEN NoRulesData
    ELSE LET seen_rules == SeenRules(rchunks[1], part_filter, <<>>)
         IN  IF seen_rules = <<>> THEN [kind |-> "no_rules", value |-> part_filter]
             ELSE [kind |-> "titles",
                   value |-> [part |-> part_filter,
                              titles |-> [k \in DOMAIN seen_rules |-> seen_rules[k][2]]]]

\* PDFToolkit.list_all_rules
list_all_rules(rchunks, part_filter) ==
    IF OrEmpty(rchunks) = <<>> THEN NoRulesData
    ELSE LET seen_rules == SeenRules(rchunks[1], part_filter, <<>>)
             sorted_sections == SortByRuleNum(seen_rules)
         IN  IF seen_rules = <<>> THEN [kind |-> "no_rules", value |-> part_filter]
             ELSE [kind |-> "titles",
                   value |-> [part |-> part_filter,
                              titles |-> [k \in DOMAIN sorted_sections |->
                                             sorted_sections[k][2]]]]

\* the rules manuals of the rule queries
FileRulesA == [name |-> <<"R", "u", "l", "e", "s", "A", ".", "p", "d", "f">>,
  pages |-> <<Page(
        <<"P", "A", "R", "T", " ", "A", " ", "-", " ", "G", "E", "N">>
        \o <<"\n">>
        \o <<"R", "u", "l", "e", " ", "A", "-", "2", ":", " ", "W", "i", "n", "d">>
        \o <<"\n">>
        \o <<"h", "a", "i", "l">>
        \o <<"\n">>
        \o <<"R", "u", "l", "e", " ", "A", "-", "1", ":", " ", "H", "a", "i", "l">>
        \o <<"\n">>
        \o <<"h", "a", "i", "l", " ", "x", " ", "h", "a", "i", "l">>, <<>>)>>]
FileManualB == [name |-> <<"M", "a", "n", "u", "a", "l", "B", ".", "p", "d", "f">>,
  pages |-> <<Page(
        <<"P", "A", "R", "T", " ", "A", " ", "-", " ", "P", "L", "A", "N">>
        \o <<"\n">>
        \o <<"R", "u", "l", "e", " ", "A", "-", "1", "0", ":", " ", "W", "i", "n", "d">>
        \o <<"\n">>
        \o <<"w">>
        \o <<"\n">>
        \o <<"P", "A", "R", "T", " ", "B", " ", "-", " ", "G", "E", "N", " ", "P", "L", "A", "N">>
        \o <<"\n">>
        \o <<"R", "u", "l", "e", " ", "A", "-", "1", ":", " ", "G", "u", "s", "t">>
        \o <<"\n">>
        \o <<"z">>
        \o <<"\n">>
        \o <<"R", "u", "l", "e", " ", "B", "-", "1", ":", " ", "/", "A", "B">>
        \o <<"\n">>
        \o <<"q">>, <<>>)>>]
RuleFileChoices == {FileRulesA, FileManualB, FileRules, FileRateA}
RuleFolderChoices ==
    UNION {{fs \in [1..n -> RuleFileChoices] :
               \A i, j \in 1..n : i # j => fs[i] # fs[j]} : n \in 0..MaxFiles}

QueryChoices == {<<"h", "a", "i", "l">>, <<"W", "I", "N", "D">>, <<"a", "-", "1">>, <<"z", "z">>}
PartFilterChoices == {None, <<"A">>, <<"B">>, <<"C">>}
TopKChoices == {1, 2, 5}
PartDescriptionChoices == {<<"G", "E", "N">>, <<"P", "L", "A", "N">>, <<"G", "E", "N", " ", "P", "L", "A", "N">>, <<"G">>, <<"z", "z", " ", "x">>}

\* search_rules, were it to cut the list of the toolkit down to the top_k it
\* answers with
SearchRules_TruncatesCorpus ==
    /\ pc = "ready"
    /\ \E query \in QueryChoices, part_filter \in PartFilterChoices, top_k \in TopKChoices :
          /\ call' = [op |-> "search_rules", query |-> query,
                      part_filter |-> part_filter, top_k |-> top_k]
          /\ result' = search_rules(rules_chunks, query, part_filter, top_k)
          /\ rules_chunks' = IF rules_chunks = <<>> THEN rules_chunks
                             ELSE <<Take(rules_chunks[1], top_k)>>
    /\ UNCHANGED <<pc, folder, file_idx, rate_chunks, toolkit_tables, buildVars>>
    /\ UNCHANGED <<rateVars, rulesVars, cacheVars, agentVars>>

\* a call of search_rules(query, part_filter, top_k)
SearchRules ==
    /\ pc = "ready"
    /\ \E query \in QueryChoices, part_filter \in PartFilterChoices, top_k \in TopKChoices :
          /\ call' = [op |-> "search_rules", query |-> query,
                      part_filter |-> part_filter, top_k |-> top_k]
          /\ result' = search_rules(rules_chunks, query, part_filter, top_k)
    /\ UNCHANGED <<pc, folder, file_idx, rules_chunks, rate_chunks, toolkit_tables,
                   buildVars>>
    /\ UNCHANGED <<rateVars, rulesVars, cacheVars, agentVars>>

\* a call of find_part_by_description(description)
FindPartByDescription ==
    /\ pc = "ready"
    /\ \E description \in PartDescriptionChoices :
          /\ call' = [op |-> "find_part_by_description", description |-> description]
          /\ result' = find_part_by_description(rules_chunks, description)
    /\ UNCHANGED <<pc, folder, file_idx, rules_chunks, rate_chunks, toolkit_tables,
                   buildVars>>
    /\ UNCHANGED <<rateVars, rulesVars, cacheVars, agentVars>>

\* a call of list_all_rules(part_filter)
ListAllRules ==
    /\ pc = "ready"
    /\ \E part_filter \in PartFilterChoices :
          /\ call' = [op |-> "list_all_rules", part_filter |-> part_filter]
          /\ result' = list_all_rules(rules_chunks, part_filter)
    /\ UNCHANGED <<pc, folder, file_idx, rules_chunks, rate_chunks, toolkit_tables,
                   buildVars>>
    /\ UNCHANGED <<rateVars, rulesVars, cacheVars, agentVars>>

InitRuleQueries ==
    /\ pc = "init" /\ RateIdle /\ RulesIdle /\ BuildIdle /\ CacheIdle /\ AgentIdle
    /\ folder \in RuleFolderChoices /\ file_idx = 0
    /\ rules_chunks = <<>> /\ rate_chunks = <<>> /\ toolkit_tables = <<>>
    /\ call = NoCall /\ result = NoResult
NextRuleQueries ==
    ParseFile \/ ParsersReady \/ SearchRules \/ FindPartByDescription \/ ListAllRules
SpecRuleQueries == InitRuleQueries /\ [][NextRuleQueries]_vars

(***************************************************************************)
(* Claims about the rule queries                                           *)
(***************************************************************************)
\* the most occurrences of q in s that can be chosen without overlap
Occurrences(s, q) ==
    LET at == {i \in 1..(Len(s) - Len(q) + 1) : SubSeq(s, i, i + Len(q) - 1) = q}
        disjoint(S) == \A a, b \in S : a # b => Abs(a - b) >= Len(q)
    IN  CHOOSE n \in 0..Len(s) :
            /\ \E S \in SUBSET at : disjoint(S) /\ Cardinality(S) = n
            /\ \A S \in SUBSET at : disjoint(S) => Cardinality(S) <= n

\* the score the claim states, for a lower-cased query q
StatedScore(c, q) ==
    (IF IsSubstring(q, Lower(c.metadata.rule_title)) THEN 10 ELSE 0)
    + Occurrences(Lower(c.content), q)
    + (IF IsSubstring(q, Lower(c.metadata.rule_section)) THEN 5 ELSE 0)

\* C11: with rules data loaded, search_rules(query, part_filter, top_k) scores
\* each chunk that passes the part filter 10 for the query in the title, plus
\* the non-overlapping occurrences of the query in the content, plus 5 for the
\* query in the rule id; it returns the first top_k chunks of score above 0 in
\* descending score, equal scores in corpus order, and the "no rules found"
\* result when no chunk scores above 0; a chunk with the query in its title
\* comes before a chunk that has it once in the body only.
C11_SearchRulesRanking ==
    (pc = "ready" /\ call.op = "search_rules" /\ OrEmpty(rules_chunks) # <<>>) =>
        LET cs == rules_chunks[1]
            q == Lower(call.query)
            score(i) == StatedScore(cs[i], q)
            P == {i \in DOMAIN cs :
                     /\ ~Truthy(call.part_filter) \/ cs[i].metadata.part = call.part_filter
                     /\ score(i) > 0}
            before(j, i) == score(j) > score(i) \/ (score(j) = score(i) /\ j < i)
            rank(i) == Cardinality({j \in P : before(j, i)}) + 1
            n == IF Cardinality(P) < call.top_k THEN Cardinality(P) ELSE call.top_k
        IN  IF P = {} THEN result.kind = "no_rules"
            ELSE /\ result.kind = "rules"
                 /\ Len(result.value) = n
                 /\ \A i \in P : rank(i) <= n => result.value[rank(i)] = FormatRule(cs[i])
                 /\ \A i, j \in P :
                        (/\ IsSubstring(q, Lower(cs[i].metadata.rule_title))
                         /\ score(j) = 1 /\ IsSubstring(q, Lower(cs[j].content)))
                        => rank(i) < rank(j)

\* a search for "hail" returned the rule titled Hail before the rule that
\* mentions hail once and comes first in the corpus
C11_Witness ==
    /\ pc = "ready" /\ call.op = "search_rules" /\ result.kind = "rules"
    /\ Len(result.value) >= 2
    /\ call.query = <<"h", "a", "i", "l">>
    /\ result.value[1].rule_title = <<"H", "a", "i", "l">>
    /\ result.value[1].rule_section = <<"A", "-", "1">>
    /\ result.value[2].rule_title = <<"W", "i", "n", "d">>
    /\ result.value[2].content = <<"h", "a", "i", "l">>

\* the (letter, name) pairs of the PART headers the loaded chunks carry
ObservedParts ==
    {<<c.metadata.part, c.metadata.part_name>> : c \in
        {c \in Range(OrEmpty(rules_chunks)) :
            Truthy(c.metadata.part) /\ Truthy(c.metadata.part_name)}}

\* C12: find_part_by_description called with exactly the name of a PART header
\* of the loaded rules documents reports that PART, with that letter and that
\* name, as the best match.
C12_ExactNameIsBest ==
    (pc = "ready" /\ call.op = "find_part_by_description") =>
        \A p \in ObservedParts :
            call.description = p[2] => (result.kind = "best" /\ result.value.best = p)

\* the chunks list_all_rules(part_filter) is about: all, or those whose rule
\* id starts with '<part_filter>-'
Listed(cs, part_filter) ==
    {i \in DOMAIN cs :
        \/ ~Truthy(part_filter)
        \/ StartsWith(cs[i].metadata.rule_section, part_filter \o <<"-">>)}

\* the integer after the hyphen of a rule id <letter>-<digits>
RuleNumber(id) == ToInt(SubSeq(id, 3, Len(id)))

\* titles lists, by ascending rule number, one title for every id of the
\* chunks in S: the title of the first chunk of S with that id
ListsFirstTitles(cs, S, titles) ==
    LET ids == {cs[i].metadata.rule_section : i \in S}
        first(id) == CHOOSE i \in S :
                         /\ cs[i].metadata.rule_section = id
                         /\ \A j \in S : cs[j].metadata.rule_section = id => i <= j
    IN  /\ Len(titles) = Cardinality(ids)
        /\ \E f \in [DOMAIN titles -> ids] :
              /\ \A k, n \in DOMAIN titles : k # n => f[k] # f[n]
              /\ \A k \in DOMAIN titles : titles[k] = cs[first(f[k])].metadata.rule_title
              /\ \A k, n \in DOMAIN titles :
                     k < n => RuleNumber(f[k]) <= RuleNumber(f[n])

RECURSIVE LoadLoop(_, _, _, _)
LoadLoop(pdf_files, unreadable, all_text_chunks, all_tables) ==
    IF pdf_files = <<>>
    THEN [kind |-> "corpus",
          value |-> [text_chunks |-> all_text_chunks, tables |-> all_tables]]
    ELSE LET pdf_file == pdf_files[1]
             parsed == RatePagesParser_parse(pdf_file)
         IN  IF pdf_file.name \in unreadable THEN Raise
             ELSE IF IsRulesFile(pdf_file)
             THEN LoadLoop(Tail(pdf_files), unreadable,
                           all_text_chunks \o RulesManualParser_parse(pdf_file),
                           all_tables)
             ELSE LoadLoop(Tail(pdf_files), unreadable,
                           all_text_chunks \o parsed.text_chunks,
                           all_tables \o parsed.tables)

\* load_and_parse_pdfs(pdfs_folder), for the files of the folder and the
\* environment e
load_and_parse_pdfs(files, e) ==
    IF ~e.exists THEN Raise
    ELSE LoadLoop(PdfFiles(files), e.unreadable, <<>>, <<>>)

\* test_cache.py: a second PDFToolkit is made for the same folder while the
\* first one is kept
SecondToolkit ==
    /\ pc = "ready" /\ toolkit1 = <<>>
    /\ toolkit1' = <<[rules_chunks |-> rules_chunks, rate_chunks |-> rate_chunks,
                      tables |-> toolkit_tables]>>
    /\ rules_chunks' = <<>> /\ rate_chunks' = <<>> /\ toolkit_tables' = <<>>
    /\ file_idx' = 0
    /\ pc' = "init"
    /\ UNCHANGED <<folder, call, result, env, cache>>
    /\ UNCHANGED <<rateVars, rulesVars, cacheVars, agentVars>>

\* a call of load_and_parse_pdfs(pdfs_folder), after a toolkit was made or
\* failed to be made for the folder
LoadAndParse ==
    /\ pc \in {"ready", "failed"}
    /\ call' = [op |-> "load_and_parse_pdfs"]
    /\ result' = load_and_parse_pdfs(folder, env)
    /\ UNCHANGED <<pc, folder, file_idx, rules_chunks, rate_chunks, toolkit_tables,
                   buildVars>>
    /\ UNCHANGED <<rateVars, rulesVars, cacheVars, agentVars>>

\* the folders of the build: rate pages, a rules manual, a file with both
\* signals in its name and a file with none
BuildFileChoices == {FileRateA, FileRules, FileManualRate, FileOther}
BuildFolderChoices ==
    UNION {{fs \in [1..n -> BuildFileChoices] :
               \A i, j \in 1..n : i # j => fs[i] # fs[j]} : n \in 0..MaxFiles}
\* a missing folder has no files; at most one file of a folder cannot be opened
EnvChoices(fs) ==
    {[exists |-> TRUE, use_cache |-> u, unreadable |-> U] :
        u \in BOOLEAN, U \in {{}} \cup {{fs[i].name} : i \in DOMAIN fs}}
    \cup (IF fs = <<>>
          THEN {[exists |-> FALSE, use_cache |-> u, unreadable |-> {}] : u \in BOOLEAN}
          ELSE {})

InitBuild ==
    /\ pc = "init" /\ RateIdle /\ RulesIdle /\ CacheIdle /\ AgentIdle
    /\ folder \in BuildFolderChoices /\ file_idx = 0
    /\ env \in EnvChoices(folder)
    /\ cache = <<>> /\ toolkit1 = <<>>
    /\ rules_chunks = <<>> /\ rate_chunks = <<>> /\ toolkit_tables = <<>>
    /\ call = NoCall /\ result = NoResult
NextBuild ==
    \/ LoadFromCache \/ ListdirFails \/ ParseFile \/ ParsersReady
    \/ SecondToolkit \/ LoadAndParse
SpecBuild == InitBuild /\ [][NextBuild]_vars

(***************************************************************************)
(* Claims about the build of the corpus                                    *)
(***************************************************************************)
\* every element of items is an element of seq
Contains(seq, items) == \A k \in DOMAIN items : \E n \in DOMAIN seq : seq[n] = items[k]

\* the PDFs of the folder that can be opened
Readable == {f \in Range(PdfFiles(folder)) : ~Unreadable(f)}

\* what RatePagesParser makes of f is in the toolkit
ToolkitHasRatePart(f) ==
    /\ Contains(OrEmpty(toolkit_tables), RatePagesParser_parse(f).tables)
    /\ Contains(OrEmpty(rate_chunks), RatePagesParser_parse(f).text_chunks)
\* what RatePagesParser makes of f is in the result of load_and_parse_pdfs
LoadedHasRatePart(f) ==
    /\ Contains(result.value.tables, RatePagesParser_parse(f).tables)
    /\ Contains(result.value.text_chunks, RatePagesParser_parse(f).text_chunks)

\* the toolkit is built; the function has returned a corpus
ToolkitBuilt == pc = "ready"
Loaded == call.op = "load_and_parse_pdfs" /\ result.kind = "corpus"

\* C16: in PDFToolkit._initialize_parsers and in load_and_parse_pdfs, a PDF
\* whose name carries neither 'Rules'/'Manual' nor 'Rate'/'Pages' is parsed by
\* RatePagesParser, and its tables and page chunks enter the corpus.
C16_NoSignalIsRateLike ==
    \A f \in Readable :
        (~IsRulesFile(f) /\ ~IsRateFile(f)) =>
            /\ ToolkitBuilt => ToolkitHasRatePart(f)
            /\ Loaded => LoadedHasRatePart(f)

\* C17: in PDFToolkit._initialize_parsers and in load_and_parse_pdfs, a PDF
\* whose name carries both a rules signal and a rate signal goes to both
\* parsers, and both its rule chunks and its tables enter the corpus.
C17_BothSignalsBothParsers ==
    \A f \in Readable :
        (IsRulesFile(f) /\ IsRateFile(f)) =>
            /\ ToolkitBuilt =>
                  /\ ToolkitHasRatePart(f)
                  /\ Contains(OrEmpty(rules_chunks), RulesManualParser_parse(f))
            /\ Loaded =>
                  /\ Contains(result.value.tables, RatePagesParser_parse(f).tables)
                  /\ Contains(result.value.text_chunks, RulesManualParser_parse(f))

\* C18: a PDF that cannot be parsed never aborts the build: for a folder that
\* exists the toolkit is built and load_and_parse_pdfs returns a corpus, and
\* both hold what the parsers make of the PDFs that can be opened.
C18_FailureNeverAborts ==
    env.exists =>
        /\ pc # "failed"
        /\ call.op = "load_and_parse_pdfs" => result.kind = "corpus"
        /\ \A f \in Readable :
              /\ (ToolkitBuilt /\ IsRateFile(f)) => ToolkitHasRatePart(f)
              /\ (Loaded /\ ~IsRulesFile(f)) => LoadedHasRatePart(f)

\* C19: a build from a folder that is missing or has no parseable PDF never
\* ends with a usable empty corpus, and no empty snapshot is written to the
\* cache.
C19_NoEmptyCorpus ==
    /\ ToolkitBuilt =>
          OrEmpty(rules_chunks) \o OrEmpty(rate_chunks) \o OrEmpty(toolkit_tables) # <<>>
    /\ Loaded => result.value.text_chunks \o result.value.tables # <<>>
    /\ cache # <<>> =>
          cache[1].rules_chunks \o cache[1].rate_chunks \o cache[1].tables # <<>>

\* two results of a query are the same
SameResult(x, y) == x.kind = y.kind /\ x.value = y.value

\* every query returns the same on the lists (ra, ta) and on the lists (rb, tb)
SameAnswers(ra, ta, rb, tb) ==
    /\ \A query \in QueryChoices, part_filter \in PartFilterChoices, top_k \in TopKChoices :
          SameResult(search_rules(ra, query, part_filter, top_k),
                     search_rules(rb, query, part_filter, top_k))
    /\ \A description \in PartDescriptionChoices :
          SameResult(find_part_by_description(ra, description),
                     find_part_by_description(rb, description))
    /\ \A part_filter \in PartFilterChoices :
          SameResult(list_all_rules(ra, part_filter), list_all_rules(rb, part_filter))
    /\ \A exhibit_name \in ExhibitNameChoices :
          /\ \A description \in DescriptionChoices :
                SameResult(extract_table(ta, exhibit_name, description),
                           extract_table(tb, exhibit_name, description))
          /\ \A criteria \in CriteriaChoices, return_column \in ReturnColumnChoices :
                SameResult(find_value_in_table(ta, exhibit_name, criteria, return_column),
                           find_value_in_table(tb, exhibit_name, criteria, return_column))

\* a second toolkit was built from the cache the first one saved
SecondFromCache == pc = "ready" /\ toolkit1 # <<>> /\ env.use_cache

MaxHeaderCols == 2      \* cells of a header list

\* header cells: None, and one text with one, two and three spaces and with a
\* line break between its words
HeaderCellChoices ==
    {None, <<"A", " ", "b">>, <<"a", " ", " ", "b">>, <<"a", " ", " ", " ", "b">>, <<"a", "\n", "b">>}
HeaderListChoices == UNION {[1..n -> HeaderCellChoices] : n \in 0..MaxHeaderCols}

\* a call of RatePagesParser._headers_match(headers1, headers2)
HeadersMatch ==
    /\ pc = "call"
    /\ \E headers1, headers2 \in HeaderListChoices :
          /\ call' = [op |-> "_headers_match", headers1 |-> headers1,
                      headers2 |-> headers2]
          /\ result' = [kind |-> "bool", value |-> headers_match(headers1, headers2)]
    /\ pc' = "returned"
    /\ UNCHANGED <<folder, file_idx, rules_chunks, rate_chunks, toolkit_tables,
                   buildVars>>
    /\ UNCHANGED <<rateVars, rulesVars, cacheVars, agentVars>>

\* every run of spaces becomes one space
RECURSIVE CollapseSpaces(_)
CollapseSpaces(s) ==
    IF Len(s) < 2 THEN s
    ELSE IF s[1] = " " /\ s[2] = " " THEN CollapseSpaces(Tail(s))
    ELSE <<s[1]>> \o CollapseSpaces(Tail(s))

\* the normal form of a header cell the claim states
StatedNormal(h) ==
    IF h = None THEN <<>>
    ELSE Lower(Strip(CollapseSpaces(Replace(h, <<"\n">>, <<" ">>))))

\* C26: _headers_match(h1, h2) is true exactly when the two lists have the
\* same length and each pair of cells is equal after line breaks are replaced
\* by spaces, every run of spaces is collapsed to one space, the cell is
\* trimmed and lower-cased, a missing cell counting as the empty string.
C26_HeadersMatchNormalised ==
    (pc = "returned" /\ call.op = "_headers_match") =>
        (result.value <=>
            /\ Len(call.headers1) = Len(call.headers2)
            /\ \A i \in DOMAIN call.headers1 :
                  StatedNormal(call.headers1[i]) = StatedNormal(call.headers2[i]))

\* page texts: exhibit labels of the three patterns in several orders, a
\* label in lower case, a label without white space, and no text
ExhibitTextChoices ==
    {Text6, NoText,
     <<"E", "X", "H", "I", "B", "I", "T", " ", "2", " ", "E", "x", "h", "i", "b", "i", "t", " ", "I", "V">>,
     <<"E", "x", "h", "i", "b", "i", "t", " ", "X", " ", "E", "x", "h", "i", "b", "i", "t", " ", "3", "a">>,
     <<"E", "X", "H", "I", "B", "I", "T", " ", "1", "2", "b">>,
     <<"e", "x", "h", "i", "b", "i", "t", " ", "1">>,
     <<"E", "x", "h", "i", "b", "i", "t", "\n", "7", " ", "E", "x", "h", "i", "b", "i", "t", " ", "2">>,
     <<"E", "x", "h", "i", "b", "i", "t", " ", "4", "A", "B">>,
     <<"E", "x", "h", "i", "b", "i", "t", "I">>}
\* the raw tables of a page: one table, or a table, an empty list and a table
PageTableChoices(p) ==
    {<<RawTable(p, 1, "A")>>, <<RawTable(p, 1, "A"), <<>>, RawTable(p, 3, "B")>>}

\* one page of RatePagesParser.parse: the fragments of the page's tables
NamePageTables ==
    /\ pc = "call"
    /\ \E text \in ExhibitTextChoices, p \in 1..MaxPage :
          \E page_tables \in PageTableChoices(p) :
              /\ call' = [op |-> "parse_page", text |-> text, page_num |-> p]
              /\ result' = [kind |-> "fragments",
                            value |-> PageFragments(RateFileName, p, text, page_tables, 1)]
    /\ pc' = "returned"
    /\ UNCHANGED <<folder, file_idx, rules_chunks, rate_chunks, toolkit_tables,
                   buildVars>>
    /\ UNCHANGED <<rateVars, rulesVars, cacheVars, agentVars>>

\* the positions of text at which  word, white space, a character of class
\* begins
LabelHits(text, word, class) ==
    {i \in 1..Len(text) :
        /\ i + Len(word) - 1 <= Len(text)
        /\ SubSeq(text, i, i + Len(word) - 1) = word
        /\ \E j \in (i + Len(word) + 1)..Len(text) :
              /\ \A k \in (i + Len(word))..(j - 1) : text[k] \in Whitespace
              /\ text[j] \in class}

\* the identifier of the leftmost label: the longest run of class characters,
\* and after digits one letter if there is one
LabelCapture(text, word, class, letter) ==
    LET i == CHOOSE i \in LabelHits(text, word, class) :
                 \A n \in LabelHits(text, word, class) : i <= n
        j == CHOOSE j \in (i + Len(word) + 1)..Len(text) :
                 /\ \A k \in (i + Len(word))..(j - 1) : text[k] \in Whitespace
                 /\ text[j] \in class
        e == CHOOSE e \in j..Len(text) :
                 /\ \A k \in j..e : text[k] \in class
                 /\ (e = Len(text) \/ text[e + 1] \notin class)
    IN  SubSeq(text, j, IF letter /\ e < Len(text) /\ IsAlpha(text[e + 1])
                        THEN e + 1 ELSE e)

\* the name the claim states for a page text
StatedExhibitName(text) ==
    LET pre == <<"E", "x", "h", "i", "b", "i", "t", " ">>
    IN  IF LabelHits(text, ExhibitWord, DigitSet) # {}
        THEN pre \o LabelCapture(text, ExhibitWord, DigitSet, TRUE)
        ELSE IF LabelHits(text, ExhibitWord, RomanChars) # {}
        THEN pre \o LabelCapture(text, ExhibitWord, RomanChars, FALSE)
        ELSE IF LabelHits(text, ExhibitUpper, DigitSet) # {}
        THEN pre \o LabelCapture(text, ExhibitUpper, DigitSet, TRUE)
        ELSE UnknownName

\* C28: every table of a page with text is named 'Exhibit ' and the identifier
\* of the first of the patterns 'Exhibit <number><letter?>', 'Exhibit <roman>',
\* 'EXHIBIT <number><letter?>' that matches anywhere in the text, or 'Unknown';
\* a table of a page without text is named 'Table_<page>_<index>', and no two
\* fragments of a file share such a name.
C28_ExhibitNameByPatternOrder ==
    /\ (pc = "returned" /\ call.op = "parse_page") =>
          \A k \in DOMAIN result.value :
              result.value[k].exhibit_name =
                  IF call.text # <<>> THEN StatedExhibitName(call.text)
                  ELSE <<"T", "a", "b", "l", "e", "_">> \o IntToStr(call.page_num)
                       \o <<"_">> \o IntToStr(result.value[k].metadata.table_index)
    /\ \A p, q \in 1..MaxPage, i, j \in 0..MaxFrags :
          <<p, i>> # <<q, j>> => SyntheticName(p, i) # SyntheticName(q, j)

\* the page text 'Exhibit X Exhibit 3a' named its two tables 'Exhibit 3a':
\* the first pattern wins over the roman label that comes first in the text
C28_Witness ==
    /\ pc = "returned" /\ call.op = "parse_page"
    /\ call.text = <<"E", "x", "h", "i", "b", "i", "t", " ", "X", " ", "E", "x", "h", "i", "b", "i", "t", " ", "3", "a">>
    /\ Len(result.value) = 2
    /\ result.value[2].exhibit_name = <<"E", "x", "h", "i", "b", "i", "t", " ", "3", "a">>

(***************************************************************************)
(* PDFToolkit.calculate and the arithmetic of eval                         *)
(***************************************************************************)
\* the values and exceptions of eval over the allowed characters: an int, a
\* float (carried as the fraction num/den it stands for), the empty tuple,
\* Ellipsis, or the name of the exception raised
IntV(n) == [t |-> "int", num |-> n, den |-> 1]
RECURSIVE Gcd(_, _)
Gcd(a, b) == IF b = 0 THEN a ELSE Gcd(b, a % b)
FloatV(n, d) ==
    LET g == Gcd(Abs(n), Abs(d))
        s == IF d < 0 THEN -1 ELSE 1
    IN  [t |-> "float", num |-> (s * n) \div g, den |-> (s * d) \div g]
TupleV == [t |-> "tuple", num |-> 0, den |-> 1]
EllipsisV == [t |-> "ellipsis", num |-> 0, den |-> 1]
RaiseV(exc) == [t |-> exc, num |-> 0, den |-> 1]
IsRaise(v) == v.t \in {"SyntaxError", "ZeroDivisionError", "TypeError"}
RECURSIVE Pow10(_)
Pow10(n) == IF n = 0 THEN 1 ELSE 10 * Pow10(n - 1)
\* floor(n / d) for d > 0
FloorDiv(n, d) == IF n >= 0 THEN n \div d ELSE -((-n + d - 1) \div d)

\* the tokens of the expression: numbers, operators, parentheses, '...' and
\* '.'; a decimal integer with a leading zero that is not all zeros is an error
DigitRun(s, i) ==
    LET stops == {j \in i..Len(s) : ~IsDigit(s[j])}
    IN  IF stops = {} THEN Len(s) + 1 ELSE Min(stops)
NumberToken(s, i) ==
    LET j == DigitRun(s, i)
        hasPoint == j <= Len(s) /\ s[j] = "."
        k == IF hasPoint THEN DigitRun(s, j + 1) ELSE j
        whole == SubSeq(s, i, j - 1)
        frac == SubSeq(s, j + 1, k - 1)
    IN  IF hasPoint
        THEN [tok |-> [k |-> "num",
                       v |-> FloatV(ToInt(whole \o frac), Pow10(Len(frac)))],
              next |-> k]
        ELSE IF Len(whole) > 1 /\ whole[1] = "0" /\ ToInt(whole) # 0
        THEN [tok |-> [k |-> "bad", v |-> RaiseV("SyntaxError")], next |-> k]
        ELSE [tok |-> [k |-> "num", v |-> IntV(ToInt(whole))], next |-> k]
OpToken(s, i) ==
    IF i < Len(s) /\ s[i] \in {"*", "/"} /\ s[i + 1] = s[i]
    THEN [tok |-> [k |-> s[i] \o s[i], v |-> TupleV], next |-> i + 2]
    ELSE [tok |-> [k |-> s[i], v |-> TupleV], next |-> i + 1]
DotToken(s, i) ==
    IF i < Len(s) /\ IsDigit(s[i + 1]) THEN NumberToken(s, i)
    ELSE IF i + 2 <= Len(s) /\ s[i + 1] = "." /\ s[i + 2] = "."
    THEN [tok |-> [k |-> "num", v |-> EllipsisV], next |-> i + 3]
    ELSE [tok |-> [k |-> ".", v |-> TupleV], next |-> i + 1]
RECURSIVE Tokens(_, _)
Tokens(s, i) ==
    IF i > Len(s) THEN <<>>
    ELSE IF s[i] = " " THEN Tokens(s, i + 1)
    ELSE LET t == IF IsDigit(s[i]) THEN NumberToken(s, i)
                  ELSE IF s[i] = "." THEN DotToken(s, i)
                  ELSE OpToken(s, i)
         IN  <<t.tok>> \o Tokens(s, t.next)

\* the arithmetic of the operators on the values
RECURSIVE IntPow(_, _)
IntPow(a, n) == IF n = 0 THEN 1 ELSE a * IntPow(a, n - 1)
InexactV == [t |-> "inexact", num |-> 0, den |-> 1]
IsArith(v) == v.t \in {"int", "float", "inexact"}
Num(a, b, n, d) ==
    IF a.t = "inexact" \/ b.t = "inexact" THEN InexactV
    ELSE IF a.t = "int" /\ b.t = "int" THEN IntV(n \div d)
    ELSE FloatV(n, d)
pow(a, b) ==
    IF a.t = "inexact" \/ b.t = "inexact" THEN InexactV
    ELSE IF b.den # 1
    THEN IF a.num # 0 THEN InexactV
         ELSE IF b.num < 0 THEN RaiseV("ZeroDivisionError") ELSE FloatV(0, 1)
    ELSE IF b.num >= 0
    THEN Num(a, b, IntPow(a.num, b.num), IntPow(a.den, b.num))
    ELSE IF a.num = 0 THEN RaiseV("ZeroDivisionError")
    ELSE FloatV(IntPow(a.den, -b.num), IntPow(a.num, -b.num))
BinOp(op, a, b) ==
    IF IsRaise(a) THEN a
    ELSE IF IsRaise(b) THEN b
    ELSE IF IsArith(a) /\ IsArith(b)
    THEN CASE op = "+" -> Num(a, b, a.num * b.den + b.num * a.den, a.den * b.den)
           [] op = "-" -> Num(a, b, a.num * b.den - b.num * a.den, a.den * b.den)
           [] op = "*" -> Num(a, b, a.num * b.num, a.den * b.den)
           [] op = "/" -> IF b.t # "inexact" /\ b.num = 0
                          THEN RaiseV("ZeroDivisionError")
                          ELSE IF a.t = "inexact" \/ b.t = "inexact" THEN InexactV
                          ELSE FloatV(a.num * b.den, a.den * b.num)
           [] op = "//" -> IF b.t # "inexact" /\ b.num = 0
                           THEN RaiseV("ZeroDivisionError")
                           ELSE Num(a, b,
                                    FloorDiv((IF b.num < 0 THEN -1 ELSE 1) * a.num * b.den,
                                             a.den * Abs(b.num)), 1)
           [] op = "**" -> pow(a, b)
    ELSE IF op = "+" /\ a.t = "tuple" /\ b.t = "tuple" THEN TupleV
    ELSE IF op = "*" /\ {a.t, b.t} = {"tuple", "int"} THEN TupleV
    ELSE RaiseV("TypeError")
UnaryOp(op, a) ==
    IF IsRaise(a) THEN a
    ELSE IF ~IsArith(a) THEN RaiseV("TypeError")
    ELSE IF op = "-" /\ a.t # "inexact"
    THEN [t |-> a.t, num |-> -a.num, den |-> a.den]
    ELSE a
\* a call of a value: the callee and the argument are evaluated, then the
\* call raises TypeError
CallOp(f, arg) ==
    IF IsRaise(f) THEN f ELSE IF IsRaise(arg) THEN arg ELSE RaiseV("TypeError")

\* the parser of eval over the tokens, with the value of each node; a parse
\* that fails is SyntaxError whatever the nodes before it raised
Syn == [v |-> RaiseV("SyntaxError"), rest |-> <<>>]
IsSyn(r) == r.v.t = "SyntaxError"
Next1(ts, kinds) == ts # <<>> /\ ts[1].k \in kinds
RECURSIVE Parse(_, _, _)
\* the rules of the grammar, each over the tokens ts (and the value a of the
\* operand or callee before them): sum, term, factor, power, the trailers
\* primary '(' [argument] ')' (no argument, an expression, or an expression
\* behind '*' or '**') and atom
Parse(rule, a, ts) ==
    CASE rule = "sum" ->
            LET l == Parse("term", a, ts)
            IN  IF IsSyn(l) THEN Syn ELSE Parse("sum_tail", l.v, l.rest)
      [] rule = "sum_tail" ->
            IF Next1(ts, {"+", "-"})
            THEN LET r == Parse("term", a, Tail(ts))
                 IN  IF IsSyn(r) THEN Syn
                     ELSE Parse("sum_tail", BinOp(ts[1].k, a, r.v), r.rest)
            ELSE [v |-> a, rest |-> ts]
      [] rule = "term" ->
            LET l == Parse("factor", a, ts)
            IN  IF IsSyn(l) THEN Syn ELSE Parse("term_tail", l.v, l.rest)
      [] rule = "term_tail" ->
            IF Next1(ts, {"*", "/", "//"})
            THEN LET r == Parse("factor", a, Tail(ts))
                 IN  IF IsSyn(r) THEN Syn
                     ELSE Parse("term_tail", BinOp(ts[1].k, a, r.v), r.rest)
            ELSE [v |-> a, rest |-> ts]
      [] rule = "factor" ->
            IF Next1(ts, {"+", "-"})
            THEN LET r == Parse("factor", a, Tail(ts))
                 IN  IF IsSyn(r) THEN Syn
                     ELSE [v |-> UnaryOp(ts[1].k, r.v), rest |-> r.rest]
            ELSE Parse("power", a, ts)
      [] rule = "power" ->
            LET f == Parse("atom", a, ts)
                p == IF IsSyn(f) THEN Syn ELSE Parse("trailers", f.v, f.rest)
            IN  IF IsSyn(p) THEN Syn
                ELSE IF Next1(p.rest, {"**"})
                THEN LET r == Parse("factor", a, Tail(p.rest))
                     IN  IF IsSyn(r) THEN Syn
                         ELSE [v |-> BinOp("**", p.v, r.v), rest |-> r.rest]
                ELSE p
      [] rule = "trailers" ->
            IF Next1(ts, {"("})
            THEN IF Next1(Tail(ts), {")"})
                 THEN Parse("trailers", CallOp(a, TupleV), Tail(Tail(ts)))
                 ELSE LET args == IF Next1(Tail(ts), {"*", "**"}) THEN Tail(Tail(ts))
                                  ELSE Tail(ts)
                          r == Parse("sum", TupleV, args)
                      IN  IF IsSyn(r) \/ ~Next1(r.rest, {")"}) THEN Syn
                          ELSE Parse("trailers", CallOp(a, r.v), Tail(r.rest))
            ELSE [v |-> a, rest |-> ts]
      [] rule = "atom" ->
            IF Next1(ts, {"num"}) THEN [v |-> ts[1].v, rest |-> Tail(ts)]
            ELSE IF Next1(ts, {"("})
            THEN IF Next1(Tail(ts), {")"}) THEN [v |-> TupleV, rest |-> Tail(Tail(ts))]
                 ELSE LET r == Parse("sum", TupleV, Tail(ts))
                      IN  IF IsSyn(r) \/ ~Next1(r.rest, {")"}) THEN Syn
                          ELSE [v |-> r.v, rest |-> Tail(r.rest)]
            ELSE Syn

\* eval(expr, {"__builtins__": {}}, {}) for an expr of allowed characters
Parsed(r) == IF IsSyn(r) \/ r.rest # <<>> THEN RaiseV("SyntaxError") ELSE r.v
eval(expr) == Parsed(Parse("sum", TupleV, Tokens(expr, 1)))

\* the characters calculate lets through to eval
allowed_chars == DigitSet \cup {".", "+", "-", "*", "/", "(", ")", " "}

\* expression.replace('$', '').replace(',', '').strip()
Clean(expression) == Strip(Replace(Replace(expression, <<"$">>, <<>>), <<",">>, <<>>))
\* not all(c in allowed_chars for c in expr)
Disallowed(s) == \E i \in DOMAIN s : s[i] \notin allowed_chars
\* the try block around eval: the answer, or the exception it raised
Evaluated(evaluated) ==
    IF IsRaise(evaluated)
    THEN [kind |-> "error", value |-> evaluated, evaluated |-> TRUE]
    ELSE [kind |-> "answer", value |-> evaluated, evaluated |-> TRUE]

\* calculate, were it to evaluate whatever is left after cleaning
calculate_NoFilter(expression) ==
    IF expression = None
    THEN [kind |-> "error", value |-> RaiseV("AttributeError"), evaluated |-> FALSE]
    ELSE Evaluated(eval(Clean(expression)))

\* PDFToolkit.calculate: 'Invalid expression: ...', 'Error calculating ...' with
\* the exception, or '<expression> = <result>'; an expression that is not a
\* string has no replace, and the except clause answers that as well
calculate(expression) ==
    IF expression = None
    THEN [kind |-> "error", value |-> RaiseV("AttributeError"), evaluated |-> FALSE]
    ELSE IF Disallowed(Clean(expression))
    THEN [kind |-> "invalid", value |-> RaiseV("Invalid"), evaluated |-> FALSE]
    ELSE Evaluated(eval(Clean(expression)))

\* the expressions of the calls: None, and every string of at most MaxExprLen
\* characters, allowed and not
MaxExprLen == 3
ExprChars == {"0", "1", ".", "+", "-", "*", "/", "(", ")", " ", "$", ",", "a", "\t"}
ExpressionChoices == {None} \cup UNION {[1..n -> ExprChars] : n \in 0..MaxExprLen}

\* a call of calculate(expression)
Calculate ==
    /\ pc = "call"
    /\ \E expression \in ExpressionChoices :
          /\ call' = [op |-> "calculate", expression |-> expression]
          /\ result' = calculate(expression)
    /\ pc' = "returned"
    /\ UNCHANGED <<folder, file_idx, rules_chunks, rate_chunks, toolkit_tables,
                   buildVars>>
    /\ UNCHANGED <<rateVars, rulesVars, cacheVars, agentVars>>

\* one call of calculate
InitCalculate == pc = "call" /\ RateIdle /\ RulesIdle /\ ToolIdle
NextCalculate == Calculate
SpecCalculate == InitCalculate /\ [][NextCalculate]_vars

\* the expression without its '$' and ','
Cleaned(expression) == SelectSeq(expression, LAMBDA c : c \notin {"$", ","})
Returned(op) == pc = "returned" /\ call.op = op

\* C22: calculate answers every input with a string; an expression that,
\* without its '$' and ',', has a character other than digits, '.', '+', '-',
\* '*', '/', '(', ')' and space is answered 'Invalid expression' and is not
\* evaluated, and an allowed expression that fails to evaluate is answered
\* 'Error calculating'.
C22_CalculateFilters ==
    Returned("calculate") =>
        /\ result.kind \in {"invalid", "error", "answer"}
        /\ call.expression # None =>
              /\ Disallowed(Cleaned(call.expression)) =>
                    result.kind = "invalid" /\ ~result.evaluated
              /\ (~Disallowed(Cleaned(call.expression))
                  /\ IsRaise(eval(Cleaned(call.expression)))) =>
                    result.kind = "error"

\* C22 as amended: the characters are tested after the leading and trailing
\* white space is stripped as well.
C22_CalculateFiltersStripped ==
    Returned("calculate") =>
        /\ result.kind \in {"invalid", "error", "answer"}
        /\ call.expression # None =>
              /\ Disallowed(Strip(Cleaned(call.expression))) =>
                    result.kind = "invalid" /\ ~result.evaluated
              /\ (~Disallowed(Strip(Cleaned(call.expression)))
                  /\ IsRaise(eval(Strip(Cleaned(call.expression))))) =>
                    result.kind = "error" /\ result.evaluated

\* calculate('1/0') is answered 'Error calculating' for ZeroDivisionError
C22_Witness ==
    /\ Returned("calculate") /\ call.expression = <<"1", "/", "0">>
    /\ result.kind = "error" /\ result.value.t = "ZeroDivisionError"

InitFunctions == pc = "call" /\ RateIdle /\ RulesIdle /\ ToolIdle
NextFunctions == HeadersMatch \/ NamePageTables
SpecFunctions == InitFunctions /\ [][NextFunctions]_vars

(***************************************************************************)
(* The five queries over one toolkit                                       *)
(***************************************************************************)
\* a toolkit over a folder of rules manuals and rate pages, and every query
InitQueries == InitRuleQueries
NextQueries ==
    \/ ParseFile \/ ParsersReady
    \/ SearchRules \/ FindPartByDescription \/ ListAllRules
    \/ ExtractTable \/ FindValue
SpecQueries == InitQueries /\ [][NextQueries]_vars

\* the three lists that PDFToolkit._initialize_parsers makes of readable files
RECURSIVE Initialized(_, _, _, _)
Initialized(pdf_files, rc, tc, tt) ==
    IF pdf_files = <<>> THEN [rules_chunks |-> rc, rate_chunks |-> tc, tables |-> tt]
    ELSE LET pdf_file == pdf_files[1]
             parsed == RatePagesParser_parse(pdf_file)
         IN  Initialized(Tail(pdf_files),
                 IF IsRulesFile(pdf_file)
                 THEN Extend(rc, RulesManualParser_parse(pdf_file)) ELSE rc,
                 IF IsRateFile(pdf_file) THEN Extend(tc, parsed.text_chunks) ELSE tc,
                 IF IsRateFile(pdf_file) THEN Extend(tt, parsed.tables) ELSE tt)
\* the toolkit as the constructor left it
AsLoaded == Initialized(PdfFiles(folder), <<>>, <<>>, <<>>)
\* the answer to the call c over the lists of the toolkit t
Answer(c, t) ==
    CASE c.op = "search_rules" ->
            search_rules(t.rules_chunks, c.query, c.part_filter, c.top_k)
      [] c.op = "find_part_by_description" ->
            find_part_by_description(t.rules_chunks, c.description)
      [] c.op = "list_all_rules" -> list_all_rules(t.rules_chunks, c.part_filter)
      [] c.op = "extract_table" -> extract_table(t.tables, c.exhibit_name, c.arg)
      [] c.op = "find_value_in_table" ->
            find_value_in_table(t.tables, c.exhibit_name, c.criteria, c.arg)
      [] OTHER -> NoResult
QueryOps == {"search_rules", "find_part_by_description", "list_all_rules",
             "extract_table", "find_value_in_table"}

\* C21: a query changes nothing of the toolkit but the call and its answer,
\* so after any sequence of queries the lists are those the constructor made
\* and the answer to a call is the answer over those lists.
C21_QueriesArePureReads ==
    /\ [][pc = "ready" =>
             /\ call'.op \in QueryOps
             /\ UNCHANGED <<pc, folder, file_idx, rules_chunks, rate_chunks,
                            toolkit_tables, env, cache, toolkit1>>]_vars
    /\ [](pc = "ready" =>
             /\ rules_chunks = AsLoaded.rules_chunks
             /\ rate_chunks = AsLoaded.rate_chunks
             /\ toolkit_tables = AsLoaded.tables
             /\ call.op \in QueryOps => SameResult(result, Answer(call, AsLoaded)))

\* search_rules('hail', None, 1) answered with one of the two rules of
\* RulesA.pdf in a toolkit that also holds the tables of RateA.pdf
C21_Witness ==
    /\ pc = "ready" /\ folder = <<FileRulesA, FileRateA>>
    /\ call.op = "search_rules" /\ call.top_k = 1
    /\ call.query = <<"h", "a", "i", "l">> /\ call.part_filter = None
    /\ result.kind = "rules" /\ Len(result.value) = 1
    /\ Len(rules_chunks[1]) = 2 /\ toolkit_tables # <<>> /\ toolkit_tables[1] # <<>>

(***************************************************************************)
(* The tools of the agent and their dispatch to PDFToolkit                 *)
(***************************************************************************)
\* the tools list of answer_pdf_question and run_agent_with_config: the
\* properties of every input_schema and those it requires
Tools ==
    [find_part_by_description |->
         [properties |-> {"description"}, required |-> {"description"}],
     search_rules |->
         [properties |-> {"query", "part_filter", "document_filter", "top_k"},
          required |-> {"query"}],
     list_all_rules |-> [properties |-> {"part_filter"}, required |-> {}],
     extract_table |->
         [properties |-> {"exhibit_name", "description"}, required |-> {"exhibit_name"}],
     find_table_by_description |->
         [properties |-> {"description", "document_filter", "top_k"},
          required |-> {"description"}],
     find_value_in_table |->
         [properties |-> {"exhibit_name", "search_criteria", "return_column"},
          required |-> {"exhibit_name", "search_criteria"}],
     calculate |-> [properties |-> {"expression"}, required |-> {"expression"}]]

\* the methods PDFToolkit defines: their keyword parameters and those without
\* a default
Methods ==
    [find_part_by_description |->
         [params |-> {"description"}, required |-> {"description"}],
     search_rules |->
         [params |-> {"query", "part_filter", "top_k"}, required |-> {"query"}],
     list_all_rules |-> [params |-> {"part_filter"}, required |-> {}],
     extract_table |->
         [params |-> {"exhibit_name", "description"}, required |-> {"exhibit_name"}],
     find_value_in_table |->
         [params |-> {"exhibit_name", "search_criteria", "return_column"},
          required |-> {"exhibit_name", "search_criteria"}],
     calculate |-> [params |-> {"expression"}, required |-> {"expression"}]]

\* the names of the if/elif chain
Dispatched == {"find_part_by_description", "search_rules", "list_all_rules",
               "extract_table", "find_table_by_description", "find_value_in_table",
               "calculate"}

\* a keyword argument, or the default of the parameter
Arg(tool_input, p, default) == IF p \in DOMAIN tool_input THEN tool_input[p] ELSE default
DefaultTopK == 5

\* the answer of a method, or the exception that left it
Returns(tool_name, r) ==
    IF r.kind = "raise" THEN [kind |-> "raise", value |-> "in " \o tool_name]
    ELSE [kind |-> "str", value |-> r]
\* toolkit.<tool_name>(**tool_input) over the lists of the toolkit t: the
\* attribute lookup, the binding of the keywords, then the method
CallMethod(t, tool_name, tool_input) ==
    IF tool_name \notin DOMAIN Methods
    THEN [kind |-> "raise", value |-> "AttributeError"]
    ELSE IF ~(DOMAIN tool_input \subseteq Methods[tool_name].params)
            \/ ~(Methods[tool_name].required \subseteq DOMAIN tool_input)
    THEN [kind |-> "raise", value |-> "TypeError"]
    ELSE Returns(tool_name,
             CASE tool_name = "find_part_by_description" ->
                     find_part_by_description(t.rules_chunks, tool_input["description"])
               [] tool_name = "search_rules" ->
                     search_rules(t.rules_chunks, tool_input["query"],
                                  Arg(tool_input, "part_filter", None),
                                  Arg(tool_input, "top_k", DefaultTopK))
               [] tool_name = "list_all_rules" ->
                     list_all_rules(t.rules_chunks, Arg(tool_input, "part_filter", None))
               [] tool_name = "extract_table" ->
                     extract_table(t.tables, tool_input["exhibit_name"],
                                   Arg(tool_input, "description", None))
               [] tool_name = "find_value_in_table" ->
                     find_value_in_table(t.tables, tool_input["exhibit_name"],
                                         tool_input["search_criteria"],
                                         Arg(tool_input, "return_column", None))
               [] tool_name = "calculate" -> calculate(tool_input["expression"]))

\* tool_results.append({...}) of the try and of the except clause; is_error is
\* FALSE where the dict has no such key
Appended(tool_id, r) ==
    [type |-> "tool_result", tool_use_id |-> tool_id,
     content |-> r.value, is_error |-> r.kind = "raise"]
\* the body of  if block.type == "tool_use":  the tool_result appended for the
\* block
ToolResult(t, block) ==
    Appended(block.id,
             IF block.name \in Dispatched
             THEN CallMethod(t, block.name, block.input)
             ELSE [kind |-> "str", value |-> [kind |-> "unknown_tool", value |-> block.name]])

\* the values of the arguments: two for every property of every tool
ArgValue(tool_name, p, k) ==
    CASE p = "query" -> IF k = 1 THEN <<"h", "a", "i", "l">> ELSE <<"z", "z">>
      [] p = "part_filter" -> IF k = 1 THEN <<"A">> ELSE <<"C">>
      [] p = "document_filter" -> IF k = 1 THEN FileRulesA.name ELSE FileRateA.name
      [] p = "top_k" -> k
      [] p = "exhibit_name" -> IF k = 1 THEN Text6 ELSE Lower(Text1)
      [] p = "search_criteria" -> IF k = 1 THEN <<>> ELSE <<<<Lower(Form), Lower(HO3)>>>>
      [] p = "return_column" -> IF k = 1 THEN Lower(Fac) ELSE Zzz
      [] p = "expression" -> IF k = 1 THEN <<"1", "/", "0">> ELSE <<"$", "1", "+", "1">>
      [] p = "description" ->
            IF tool_name = "find_part_by_description"
            THEN (IF k = 1 THEN <<"G", "E", "N">> ELSE <<"z", "z", " ", "x">>)
            ELSE (IF k = 1 THEN Lower(HO3) ELSE Zzz)
\* every input over the properties of the tool's schema, and no input for a
\* name that is no tool
ToolInputChoices(tool_name) ==
    IF tool_name \notin DOMAIN Tools THEN {<<>>}
    ELSE UNION {{[p \in ps |-> ArgValue(tool_name, p, pick[p])] : pick \in [ps -> {1, 2}]} :
                   ps \in SUBSET Tools[tool_name].properties}
ToolNameChoices == DOMAIN Tools \cup {"get_weather"}

\* the toolkit the agent made before its loop
AgentFolder == <<FileRulesA, FileRateA>>
AgentToolkit == Initialized(PdfFiles(AgentFolder), <<>>, <<>>, <<>>)
ToolkitMade ==
    /\ folder = AgentFolder /\ file_idx = Len(PdfFiles(AgentFolder))
    /\ rules_chunks = AgentToolkit.rules_chunks
    /\ rate_chunks = AgentToolkit.rate_chunks
    /\ toolkit_tables = AgentToolkit.tables
    /\ call = NoCall /\ result = NoResult /\ BuildIdle /\ CacheIdle

\* one tool_use block is executed
ExecuteTool ==
    /\ pc = "call"
    /\ \E tool_name \in ToolNameChoices :
          \E tool_input \in ToolInputChoices(tool_name) :
              /\ call' = [op |-> "tool_use", tool_name |-> tool_name,
                          tool_input |-> tool_input]
              /\ result' = ToolResult([rules_chunks |-> rules_chunks, tables |-> toolkit_tables],
                                      [type |-> "tool_use", id |-> "toolu_1",
                                       name |-> tool_name, input |-> tool_input])
    /\ pc' = "returned"
    /\ UNCHANGED <<folder, file_idx, rules_chunks, rate_chunks, toolkit_tables,
                   buildVars>>
    /\ UNCHANGED <<rateVars, rulesVars, cacheVars, agentVars>>

InitDispatch == pc = "call" /\ RateIdle /\ RulesIdle /\ AgentIdle /\ ToolkitMade
NextDispatch == ExecuteTool
SpecDispatch == InitDispatch /\ [][NextDispatch]_vars

\* the input has only properties of the tool's schema and all it requires
SchemaAllows(tool_name, tool_input) ==
    /\ tool_name \in DOMAIN Tools
    /\ DOMAIN tool_input \subseteq Tools[tool_name].properties
    /\ Tools[tool_name].required \subseteq DOMAIN tool_input

\* C23: every advertised tool is dispatched to a method that PDFToolkit
\* defines and that accepts every property of the tool's schema, so a tool
\* call that the schema allows never gets an error tool_result for a missing
\* method or an unexpected argument.
C23_AdvertisedToolsDispatch ==
    (Returned("tool_use") /\ SchemaAllows(call.tool_name, call.tool_input)) =>
        /\ call.tool_name \in Dispatched
        /\ call.tool_name \in DOMAIN Methods
        /\ ~(result.is_error /\ result.content \in {"AttributeError", "TypeError"})

(***************************************************************************)
(* CacheManager: the cache files of one folder whose PDFs change           *)
(***************************************************************************)
\* the files a folder can hold, in the order sorted() gives their paths; the
\* third is a PDF whose name has the shape of a 'name:mtime:size|name' text
NameA == <<"a", ".", "p", "d", "f">>
NameB == <<"b", ".", "p", "d", "f">>
NameAB == NameA \o <<":", "1", ".", "0", ":", "1", "|">> \o NameB
SortedNames == <<NameA, NameAB, NameB>>
StatChoices ==
    {[name |-> NameA, st_mtime |-> m, st_size |-> s] : m \in {1, 2}, s \in {1, 2}}
    \cup {[name |-> n, st_mtime |-> 1, st_size |-> 1] : n \in {NameAB, NameB}}
CacheFolderName == <<"1">>

\* sorted(folder_path.glob("*.pdf")) with the stat of every file
SortedStats(stats) ==
    LET present == SelectSeq(SortedNames, LAMBDA n : \E f \in stats : f.name = n)
    IN  [i \in DOMAIN present |-> CHOOSE f \in stats : f.name = present[i]]
\* str(float) of a modification time in whole seconds
FloatStr(n) == IntToStr(n) \o <<".", "0">>
\* "|".join of the f"{name}:{st_mtime}:{st_size}" of the files
Combined(stats) ==
    LET files == SortedStats(stats)
    IN  Join(<<"|">>, [i \in DOMAIN files |->
                          files[i].name \o <<":">> \o FloatStr(files[i].st_mtime)
                          \o <<":">> \o IntToStr(files[i].st_size)])
\* hashlib.md5(...).hexdigest(), taken to be free of collisions: the digest
\* stands for the text it was made of
hexdigest(text) == <<"m", "d", "5", "(">> \o text \o <<")">>
\* CacheManager._get_cache_key
get_cache_key(stats) == hexdigest(Combined(stats))

\* CacheManager._get_cache_path: f"{folder_name}_{cache_key}.pkl"
get_cache_path(stats) ==
    CacheFolderName \o <<"_">> \o get_cache_key(stats) \o <<".", "p", "k", "l">>

\* the file of the cache directory at a path, <<>> if there is none
FileAt(files, path) ==
    IF \E f \in files : f.path = path
    THEN <<CHOOSE f \in files : f.path = path>> ELSE <<>>
\* the data of a file that pickle cannot load
Corrupt == 0
\* CacheManager.load: None without a file or when pickle.load raises
load(files, stats) ==
    LET f == FileAt(files, get_cache_path(stats))
    IN  IF f = <<>> \/ f[1].data = Corrupt THEN [kind |-> "miss", value |-> 0]
        ELSE [kind |-> "hit", value |-> f[1].data]
\* open(cache_path, 'wb') and pickle.dump: the file at the path is replaced
Written(files, stats, data) ==
    {f \in files : f.path # get_cache_path(stats)}
    \cup {[path |-> get_cache_path(stats), data |-> data]}
\* CacheManager.clear(pdfs_folder): the file at the current path is unlinked
Unlinked(files, stats) == {f \in files : f.path # get_cache_path(stats)}

\* history: every snapshot that was saved (saved), and those neither replaced
\* nor cleared since (stored), each with the stats of the folder at its save
Fingerprint(stats) == <<CacheFolderName, Combined(stats)>>
Forget(log, stats) ==
    {e \in log.stored : Fingerprint(e.stats) # Fingerprint(stats)}
NoLog == [stored |-> {}, saved |-> {}, saves |-> 0, cleared |-> FALSE]

MaxSaves == 2

\* cache_manager.save(folder, ...) by a toolkit that parsed the folder; the
\* snapshots are numbered
Save ==
    /\ pc = "cache" /\ cache_log.saves < MaxSaves
    /\ LET data == cache_log.saves + 1
       IN  /\ cache_files' = Written(cache_files, pdf_stats, data)
           /\ cache_log' = [stored |-> Forget(cache_log, pdf_stats)
                                       \cup {[stats |-> pdf_stats, data |-> data]},
                            saved |-> cache_log.saved
                                      \cup {[stats |-> pdf_stats, data |-> data]},
                            saves |-> data,
                            cleared |-> FALSE]
    /\ call' = [op |-> "save"] /\ result' = NoResult
    /\ UNCHANGED <<pc, pdf_stats, agentVars>>
    /\ UNCHANGED <<folder, file_idx, rules_chunks, rate_chunks, toolkit_tables,
                   buildVars, rateVars, rulesVars>>

\* save when pickle.dump raises after the file was opened: the exception is
\* printed and a file that cannot be loaded stays
SaveFails ==
    /\ pc = "cache" /\ cache_log.saves < MaxSaves
    /\ cache_files' = Written(cache_files, pdf_stats, Corrupt)
    /\ cache_log' = [cache_log EXCEPT !.stored = Forget(cache_log, pdf_stats),
                                      !.saves = @ + 1, !.cleared = FALSE]
    /\ call' = [op |-> "save"] /\ result' = NoResult
    /\ UNCHANGED <<pc, pdf_stats, agentVars>>
    /\ UNCHANGED <<folder, file_idx, rules_chunks, rate_chunks, toolkit_tables,
                   buildVars, rateVars, rulesVars>>

\* cache_manager.load(folder)
Load ==
    /\ pc = "cache"
    /\ call' = [op |-> "load"]
    /\ result' = load(cache_files, pdf_stats)
    /\ UNCHANGED <<pc, cacheVars, agentVars>>
    /\ UNCHANGED <<folder, file_idx, rules_chunks, rate_chunks, toolkit_tables,
                   buildVars, rateVars, rulesVars>>

\* cache_manager.clear(folder)
Clear ==
    /\ pc = "cache"
    /\ cache_files' = Unlinked(cache_files, pdf_stats)
    /\ cache_log' = [cache_log EXCEPT !.stored = Forget(cache_log, pdf_stats),
                                      !.cleared = TRUE]
    /\ call' = [op |-> "clear"] /\ result' = NoResult
    /\ UNCHANGED <<pc, pdf_stats, agentVars>>
    /\ UNCHANGED <<folder, file_idx, rules_chunks, rate_chunks, toolkit_tables,
                   buildVars, rateVars, rulesVars>>

\* cache_manager.clear(): every .pkl file is unlinked
ClearAll ==
    /\ pc = "cache"
    /\ cache_files' = {}
    /\ cache_log' = [cache_log EXCEPT !.stored = {}, !.cleared = TRUE]
    /\ call' = [op |-> "clear_all"] /\ result' = NoResult
    /\ UNCHANGED <<pc, pdf_stats, agentVars>>
    /\ UNCHANGED <<folder, file_idx, rules_chunks, rate_chunks, toolkit_tables,
                   buildVars, rateVars, rulesVars>>

\* the folder changes to the files new_stats
Changed(new_stats) ==
    /\ pc = "cache"
    /\ new_stats \subseteq StatChoices
    /\ \A f, g \in new_stats : f.name = g.name => f = g
    /\ pdf_stats' = new_stats
    /\ cache_log' = [cache_log EXCEPT !.cleared = FALSE]
    /\ call' = [op |-> "change"] /\ result' = NoResult
    /\ UNCHANGED <<pc, cache_files, agentVars>>
    /\ UNCHANGED <<folder, file_idx, rules_chunks, rate_chunks, toolkit_tables,
                   buildVars, rateVars, rulesVars>>
\* a PDF is added to the folder
AddPdf ==
    \E f \in StatChoices :
        /\ \A g \in pdf_stats : g.name # f.name
        /\ Changed(pdf_stats \cup {f})
\* a PDF is removed
RemovePdf == \E f \in pdf_stats : Changed(pdf_stats \ {f})
\* a PDF is renamed: its modification time and size stay
RenamePdf ==
    \E f \in pdf_stats, n \in Range(SortedNames) :
        /\ \A g \in pdf_stats : g.name # n
        /\ Changed((pdf_stats \ {f}) \cup {[f EXCEPT !.name = n]})
\* a PDF is written again with the same size, or its time is set
TouchPdf ==
    \E f \in pdf_stats, m \in {1, 2} :
        /\ m # f.st_mtime
        /\ Changed((pdf_stats \ {f}) \cup {[f EXCEPT !.st_mtime = m]})
\* a PDF changes size while its modification time stays
ResizePdf ==
    \E f \in pdf_stats, s \in {1, 2} :
        /\ s # f.st_size
        /\ Changed((pdf_stats \ {f}) \cup {[f EXCEPT !.st_size = s]})

InitCache ==
    /\ pc = "cache" /\ RateIdle /\ RulesIdle /\ AgentIdle
    /\ folder = <<>> /\ file_idx = 0
    /\ rules_chunks = <<>> /\ rate_chunks = <<>> /\ toolkit_tables = <<>>
    /\ call = NoCall /\ result = NoResult /\ BuildIdle
    /\ pdf_stats = {} /\ cache_files = {} /\ cache_log = NoLog
NextCache ==
    \/ Save \/ SaveFails \/ Load \/ Clear \/ ClearAll
    \/ AddPdf \/ RemovePdf \/ RenamePdf \/ TouchPdf \/ ResizePdf
SpecCache == InitCache /\ [][NextCache]_vars

\* C25: load returns a snapshot only if it was saved while the PDFs of the
\* folder had exactly their present names, modification times and sizes: once
\* a PDF was added, removed, renamed, resized or touched, load is a miss and
\* never a snapshot of other files; and load after clear(folder) is a miss.
C25_LoadOnlyForPresentFiles ==
    call.op = "load" =>
        /\ result.kind = "hit" =>
              \E e \in cache_log.saved : e.data = result.value /\ e.stats = pdf_stats
        /\ cache_log.cleared => result.kind = "miss"

\* what load does return: the snapshot that was last saved while the joined
\* 'name:mtime:size' text of the folder's PDFs was the present one, unless a
\* clear or a failed save took it away since, and a miss otherwise
C25_LoadByJoinedText ==
    call.op = "load" =>
        LET same == {e \in cache_log.stored :
                        Fingerprint(e.stats) = Fingerprint(pdf_stats)}
        IN  /\ Cardinality(same) <= 1
            /\ result.kind = "hit" <=> same # {}
            /\ result.kind = "hit" => \A e \in same : e.data = result.value
            /\ cache_log.cleared => result.kind = "miss"

\* a snapshot was saved, a second one after a PDF was added, the PDF was
\* removed again, and load returned the first snapshot
C25_ReturnsEarlierSnapshot ==
    /\ call.op = "load" /\ result.kind = "hit" /\ result.value = 1
    /\ cache_log.saves = 2
    /\ Cardinality(cache_log.stored) = 2

(***************************************************************************)
(* The agent loop of answer_pdf_question and run_agent_with_config         *)
(***************************************************************************)
\* the question of the first message and the text returned at the limit
Question == "q"
Unable == "Unable to answer question within iteration limit."
\* max_iterations of answer_pdf_question
AgentMaxIterations == 12
\* the largest config.max_iterations tried, the longest content of a response
\* and the number of model calls whose response is drawn from every choice
MaxIterations == 3
MaxBlocks == 2
MaxVaried == 1

\* the blocks of a response: two texts, a tool_use whose tool answers and a
\* tool_use whose tool raises (PDFToolkit has no find_table_by_description)
BlockChoices ==
    {[type |-> "text", text |-> "a"],
     [type |-> "text", text |-> "b"],
     [type |-> "tool_use", id |-> "toolu_1", name |-> "calculate",
      input |-> [expression |-> <<"1", "+", "1">>]],
     [type |-> "tool_use", id |-> "toolu_2", name |-> "find_table_by_description",
      input |-> [description |-> Zzz]]}
NoRepeat(s) == \A i, j \in DOMAIN s : s[i] = s[j] => i = j
ContentChoices ==
    UNION {{s \in [1..n -> BlockChoices] : NoRepeat(s)} : n \in 0..MaxBlocks}
StopReasons == {"end_turn", "tool_use", "max_tokens"}
\* what client.messages.create returns at the given call: any response at the
\* first calls, one response of each stop reason at the later ones
ResponseChoices(i) ==
    IF i < MaxVaried
    THEN {[stop_reason |-> sr, content |-> c] : sr \in StopReasons, c \in ContentChoices}
    ELSE {[stop_reason |-> "end_turn", content |-> <<[type |-> "text", text |-> "a"]>>],
          [stop_reason |-> "max_tokens", content |-> <<>>],
          [stop_reason |-> "tool_use",
           content |-> <<[type |-> "tool_use", id |-> "toolu_1", name |-> "calculate",
                          input |-> [expression |-> <<"1", "+", "1">>]]>>]}

\* hasattr(block, 'text')
HasText(block) == "text" \in DOMAIN block
\* for block in response.content: if hasattr(block, 'text'): final_answer += block.text
RECURSIVE FinalAnswer(_)
FinalAnswer(content) ==
    IF content = <<>> THEN ""
    ELSE LET init == SubSeq(content, 1, Len(content) - 1)
             last == content[Len(content)]
         IN  IF HasText(last) THEN FinalAnswer(init) \o last.text ELSE FinalAnswer(init)

\* the loop over the blocks where a tool that raises leaves no tool_result
RECURSIVE ToolResults_SkipRaising(_, _)
ToolResults_SkipRaising(t, content) ==
    IF content = <<>> THEN <<>>
    ELSE LET init == SubSeq(content, 1, Len(content) - 1)
             last == content[Len(content)]
         IN  IF last.type = "tool_use" /\ ~ToolResult(t, last).is_error
             THEN Append(ToolResults_SkipRaising(t, init), ToolResult(t, last))
             ELSE ToolResults_SkipRaising(t, init)

\* for block in response.content: if block.type == "tool_use": ... the
\* tool_results of the blocks, over the toolkit t
RECURSIVE ToolResults(_, _)
ToolResults(t, content) ==
    IF content = <<>> THEN <<>>
    ELSE LET init == SubSeq(content, 1, Len(content) - 1)
             last == content[Len(content)]
         IN  IF last.type = "tool_use"
             THEN Append(ToolResults(t, init), ToolResult(t, last))
             ELSE ToolResults(t, init)
\* the tool_use blocks of a content, in order
RECURSIVE ToolUses(_)
ToolUses(content) ==
    IF content = <<>> THEN <<>>
    ELSE LET init == SubSeq(content, 1, Len(content) - 1)
             last == content[Len(content)]
         IN  IF last.type = "tool_use" THEN Append(ToolUses(init), last) ELSE ToolUses(init)

\* trace["tool_calls"] += 1 and trace["tool_call_details"].append(...) for
\* every tool_use block of the content, at the given iteration
TraceDetails(content, it) ==
    [k \in 1..Len(ToolUses(content)) |->
        [iteration |-> it + 1, tool |-> ToolUses(content)[k].name,
         input |-> ToolUses(content)[k].input]]
\* the trace of run_agent_with_config (answer_pdf_question keeps none) after
\* trace["iterations"] = iteration + 1 and the tool calls of the content
Traced(tr, it, content) ==
    IF tr = <<>> THEN tr
    ELSE <<[iterations |-> it + 1,
            tool_calls |-> tr[1].tool_calls + Len(ToolUses(content)),
            tool_call_details |-> tr[1].tool_call_details \o TraceDetails(content, it)]>>

\* iteration in range(max_iterations), and the same with one iteration more
InRange_Inclusive(i, n) == i <= n
InRange(i, n) == i < n

\* one iteration of  for iteration in range(max_iterations)  where
\* client.messages.create returns a response
Iterate ==
    /\ pc = "agent_loop" /\ InRange(iteration, max_iterations)
    /\ \E r \in ResponseChoices(iteration) :
          /\ response' = r
          /\ CASE r.stop_reason = "end_turn" ->
                    /\ messages' = Append(messages, [role |-> "assistant", content |-> r.content])
                    /\ final_answer' = <<FinalAnswer(r.content)>>
                    /\ trace' = Traced(trace, iteration, <<>>)
                    /\ pc' = "returned"
                    /\ UNCHANGED <<iteration, block_idx, tool_results>>
               [] r.stop_reason = "tool_use" ->
                    /\ tool_results' =
                          ToolResults([rules_chunks |-> rules_chunks, tables |-> toolkit_tables],
                                      r.content)
                    /\ messages' = messages
                          \o <<[role |-> "assistant", content |-> r.content],
                               [role |-> "user", content |-> tool_results']>>
                    /\ trace' = Traced(trace, iteration, r.content)
                    /\ block_idx' = Len(r.content)
                    /\ iteration' = iteration + 1
                    /\ UNCHANGED <<pc, final_answer>>
               [] OTHER ->
                    /\ messages' = Append(messages, [role |-> "assistant", content |-> r.content])
                    /\ final_answer' = <<Unable>>
                    /\ trace' = Traced(trace, iteration, <<>>)
                    /\ pc' = "returned"
                    /\ UNCHANGED <<iteration, block_idx, tool_results>>
    /\ UNCHANGED <<max_iterations, folder, file_idx, rules_chunks, rate_chunks,
                   toolkit_tables, call, result, buildVars, cacheVars>>
    /\ UNCHANGED <<rateVars, rulesVars>>

\* client.messages.create raises: the exception leaves the function
ApiError ==
    /\ pc = "agent_loop" /\ InRange(iteration, max_iterations)
    /\ trace' = Traced(trace, iteration, <<>>)
    /\ pc' = "raised"
    /\ UNCHANGED <<messages, iteration, max_iterations, response, block_idx,
                   tool_results, final_answer>>
    /\ UNCHANGED <<folder, file_idx, rules_chunks, rate_chunks, toolkit_tables, call,
                   result, buildVars, cacheVars>>
    /\ UNCHANGED <<rateVars, rulesVars>>

\* range(max_iterations) is exhausted
LimitReached ==
    /\ pc = "agent_loop" /\ ~InRange(iteration, max_iterations)
    /\ final_answer' = <<Unable>>
    /\ pc' = "returned"
    /\ UNCHANGED <<messages, iteration, max_iterations, response, block_idx,
                   tool_results, trace>>
    /\ UNCHANGED <<folder, file_idx, rules_chunks, rate_chunks, toolkit_tables, call,
                   result, buildVars, cacheVars>>
    /\ UNCHANGED <<rateVars, rulesVars>>

NoTrace == [iterations |-> 0, tool_calls |-> 0, tool_call_details |-> <<>>]
\* the state before the loop: of answer_pdf_question (no trace), or of
\* run_agent_with_config with a config.max_iterations that is no negative number
InitAgent ==
    /\ pc = "agent_loop" /\ RateIdle /\ RulesIdle /\ ToolkitMade
    /\ messages = <<[role |-> "user", content |-> Question]>>
    /\ iteration = 0 /\ response = NoResponse /\ block_idx = 0
    /\ tool_results = <<>> /\ final_answer = <<>>
    /\ \/ max_iterations = AgentMaxIterations /\ trace = <<>>
       \/ max_iterations \in 0..MaxIterations /\ trace = <<NoTrace>>
NextAgent == Iterate \/ ApiError \/ LimitReached
SpecAgent == InitAgent /\ [][NextAgent]_vars
\* the one thread of the function keeps running until it returns or raises
SpecAgentFair == SpecAgent /\ WF_vars(NextAgent)

\* the number of client.messages.create calls made so far: one for every
\* assistant message, and the call that raised
ModelCalls == Len(messages) \div 2 + (IF pc = "raised" THEN 1 ELSE 0)
\* the assistant messages that a user message follows
Answered == {i \in DOMAIN messages : i % 2 = 0 /\ i < Len(messages)}
RECURSIVE SumOver(_, _)
SumOver(S, f) ==
    IF S = {} THEN 0
    ELSE LET x == CHOOSE y \in S : TRUE IN f[x] + SumOver(S \ {x}, f)
\* the tool_use blocks of the responses whose tools were run
Processed ==
    SumOver(Answered, [i \in Answered |-> Len(ToolUses(messages[i].content))])
\* the user message is the list of tool_results of the tool_use blocks of the
\* assistant message: as many, in their order, with their ids, is_error for
\* those whose tool raises
Carries(user, assistant) ==
    LET uses == ToolUses(assistant.content)
    IN  /\ Len(user.content) = Len(uses)
        /\ \A k \in DOMAIN uses :
              /\ user.content[k].type = "tool_result"
              /\ user.content[k].tool_use_id = uses[k].id
              /\ user.content[k].is_error =
                    (/\ uses[k].name \in Dispatched
                     /\ CallMethod(AgentToolkit, uses[k].name, uses[k].input).kind = "raise")

\* C29: the messages alternate user and assistant from the question on; every
\* response with stop_reason 'tool_use' is followed by exactly one user
\* message with one tool_result per tool_use block, in order and with the
\* block's id, is_error for a tool that raises, and the loop goes on after it;
\* the trace counts the tool_use blocks processed and the model calls made.
C29_ToolResultsAnswerToolUses ==
    pc \in {"agent_loop", "returned", "raised"} =>
        /\ messages[1] = [role |-> "user", content |-> Question]
        /\ \A i \in DOMAIN messages :
              messages[i].role = IF i % 2 = 1 THEN "user" ELSE "assistant"
        /\ \A i \in Answered : Carries(messages[i + 1], messages[i])
        /\ response.stop_reason = "tool_use" =>
              /\ Len(messages) % 2 = 1
              /\ messages[Len(messages) - 1].content = response.content
              /\ pc = "agent_loop" \/ (pc = "returned" /\ iteration = max_iterations)
                    \/ (pc = "raised" /\ iteration < max_iterations)
        /\ (response.stop_reason \in {"end_turn", "max_tokens"}) =>
              /\ Len(messages) % 2 = 0
              /\ messages[Len(messages)].content = response.content
        /\ trace # <<>> =>
              /\ trace[1].tool_calls = Processed
              /\ Len(trace[1].tool_call_details) = Processed
              /\ trace[1].iterations = ModelCalls
C29_Witness ==
    /\ pc = "returned" /\ trace # <<>> /\ max_iterations = 2
    /\ Len(messages) = 4
    /\ Len(messages[2].content) = 2
    /\ messages[2].content[1].type = "tool_use" /\ messages[2].content[1].id = "toolu_2"
    /\ messages[2].content[2].type = "tool_use" /\ messages[2].content[2].id = "toolu_1"
    /\ Len(messages[3].content) = 2
    /\ messages[3].content[1].is_error /\ messages[3].content[1].tool_use_id = "toolu_2"
    /\ ~messages[3].content[2].is_error /\ messages[3].content[2].tool_use_id = "toolu_1"
    /\ trace[1].tool_calls = 2 /\ trace[1].iterations = 2

\* the function has returned or raised
Terminated == pc \in {"returned", "raised"}
\* C30: the loop ends; at most max_iterations model calls are made; a response
\* with stop_reason 'end_turn' is returned at once as its concatenated text; at
\* the limit, or at a stop reason other than 'end_turn' and 'tool_use', the
\* text 'Unable to answer question within iteration limit.' is returned; and
\* nothing is done after the return.
C30_LoopTerminates ==
    /\ [](pc \in {"agent_loop", "returned", "raised"} =>
             /\ ModelCalls <= max_iterations
             /\ response.stop_reason = "end_turn" =>
                   pc = "returned" /\ final_answer = <<FinalAnswer(response.content)>>
             /\ response.stop_reason = "max_tokens" =>
                   pc = "returned" /\ final_answer = <<Unable>>
             /\ (pc = "returned" /\ response.stop_reason \in {"tool_use", "none"}) =>
                   /\ final_answer = <<Unable>>
                   /\ ModelCalls = max_iterations
             /\ pc = "agent_loop" => final_answer = <<>>)
    /\ [][~Terminated /\ ModelCalls' <= ModelCalls + 1]_vars
    /\ <>Terminated
C30_Witness ==
    /\ pc = "returned" /\ max_iterations = AgentMaxIterations
    /\ ModelCalls = AgentMaxIterations /\ final_answer = <<Unable>>
    /\ response.stop_reason = "tool_use"

====
